---- MODULE Spec2Model ----
(***************************************************************************)
(* A model of the codex-monitor daemon                                     *)
(* (src/src-tauri/src/bin/codex_monitor_daemon.rs).                        *)
(*                                                                         *)
(* The daemon runs on a current-thread tokio runtime (main, line 1912):    *)
(* tasks interleave only at .await points, so every action below is the    *)
(* code one task runs between two suspension points.                       *)
(*                                                                         *)
(* SpecConn : client connections (handle_client), the event bus            *)
(*            (broadcast channel) and the per-connection forwarder and     *)
(*            writer tasks.                                                *)
(* SpecBus  : the same with two connections and few kinds of line.         *)
(* SpecDeliver : two connections whose clients only authenticate, and the  *)
(*            events forwarded to them; FairDeliver adds the fairness of   *)
(*            the runtime.                                                 *)
(* SpecCat  : the workspace catalog, its file and the sessions map under   *)
(*            operations that concurrent clients request.                  *)
(* SpecSess : requests passed through to the children of two connected     *)
(*            workspaces, and the operations that kill a session;          *)
(*            FairSess adds the fairness of the runtime.                   *)
(* SpecOps  : the catalog operations of one connection whose client may    *)
(*            go away; FairOps adds the fairness of the runtime.           *)
(***************************************************************************)
EXTENDS Integers, Sequences, FiniteSets, TLC

(***************************************************************************)
(* Bounds of the model.                                                    *)
(***************************************************************************)
\* lines read from the client sockets together, in SpecConn and in SpecBus
MaxLines == 2
MaxBusLines == 1
\* events published on the bus
MaxEvents == 2
\* ring slots of the modelled bus (the program's channel has BROADCAST_CAPACITY)
MaxRing == 1
\* operations the clients request, in SpecCat and in SpecSess
MaxCalls == 2
MaxRequests == 2
\* workspaces in a list given to sort_workspaces
MaxList == 4
\* characters in a text given to sanitize_worktree_name
MaxText == 3

\* broadcast::channel::<DaemonEvent>(2048), main
BROADCAST_CAPACITY == 2048

Min(a, b) == IF a < b THEN a ELSE b

\* the number of events the modelled ring retains
Capacity == Min(BROADCAST_CAPACITY, MaxRing)

Conns == {"c1", "c2"}
\* the connections whose handlers run operations: SpecSess has a third
Clients == Conns \cup {"c3"}

(***************************************************************************)
(* JSON values as far as handle_client and parse_auth_token look at them:  *)
(* t is the value's type; s the string (of a string value, or of the       *)
(* "token" member of an object); tok the type of an object's "token".      *)
(***************************************************************************)
JNull == [t |-> "null", s |-> "", tok |-> "absent"]
JNum == [t |-> "num", s |-> "", tok |-> "absent"]
JStr(v) == [t |-> "str", s |-> v, tok |-> "absent"]
JObjNone == [t |-> "obj", s |-> "", tok |-> "absent"]
JObjNum == [t |-> "obj", s |-> "", tok |-> "num"]
JObjStr(v) == [t |-> "obj", s |-> v, tok |-> "str"]

\* Option<String>
None == [some |-> FALSE, v |-> ""]
Some(v) == [some |-> TRUE, v |-> v]
unwrap_or_default(o) == IF o.some THEN o.v ELSE ""

\* the token the daemon is started with: --token T, or None (--insecure-no-auth)
ConfigTokens == {None, Some("T")}

NoId == 0 - 1

\* token strings a client may offer
OfferedTokens == {"T", "X"}

AuthParams ==
    {JNull, JObjNum}
        \cup {JStr(v) : v \in OfferedTokens}
        \cup {JObjStr(v) : v \in OfferedTokens}

\* methods a client may name: "" stands for a frame with no "method" member,
\* "start_thread" for the methods that wait for a child's reply.
Methods == {"auth", "ping", "start_thread", ""}

\* the "id" member of a message: absent, or a JSON number (v stands for a
\* non-negative integer when v >= 0, and for a negative or fractional number
\* otherwise)
IdAbsent == [t |-> "absent", v |-> 0]
IdNum(v) == [t |-> "num", v |-> v]

\* line 1848: message.get("id").and_then(|value| value.as_u64())
as_u64(member) ==
    IF member.t = "num" /\ member.v >= 0 THEN member.v ELSE NoId

\* A line of input: garbage (blank or not JSON) or a frame.  The n-th line read
\* carries id n or no id (message.get("id").and_then(as_u64)).
Frame(id, method, params) ==
    [json |-> TRUE, id |-> id, method |-> method, params |-> params,
     member |-> IF id = NoId THEN IdAbsent ELSE IdNum(id)]
Garbage ==
    [json |-> FALSE, id |-> NoId, method |-> "", params |-> JNull,
     member |-> IdAbsent]

\* a frame as handle_client parses it from a message with this "id" member
Message(member, method, params) ==
    [Frame(as_u64(member), method, params) EXCEPT !.member = member]

\* the n-th line may also carry the number -n as its id
Lines(n) ==
    {Garbage}
        \cup {Frame(id, "auth", p) : id \in {NoId, n}, p \in AuthParams}
        \cup {Frame(id, m, JNull) : id \in {NoId, n}, m \in Methods \ {"auth"}}
        \cup {Message(IdNum(0 - n), m, JNull) : m \in Methods \ {"auth"}}

\* the lines of SpecBus: an auth frame with the token, and a request
BusLines(n) == {Frame(n, "auth", JStr("T")), Frame(n, "ping", JNull)}

VARIABLES
    token,          \* config.token
    conn,           \* per connection: "idle" (not accepted), "open", "closed"
    authenticated,  \* handle_client's local `authenticated`
    events_task,    \* "none", "running", "finished", "aborted"
    write_task,     \* "none", "running", "finished", "aborted"
    rx,             \* the forwarder's receiver: next bus position to read
    out,            \* the out channel: messages sent and not yet written
    pending,        \* the frame whose handle_rpc_request is suspended, or NoFrame
    io,             \* what handle_client did in the last step (NoIo: nothing)
    nlines,         \* lines read so far
    bus,            \* every event published, in order; the ring holds the tail
    lagged,         \* per connection: whether its receiver got a Lagged result
    missed,         \* per connection: the bus positions its receiver skipped
    peer,           \* per connection: the client still holds its end of the socket
    subscribed,     \* per connection: the position of the first event
                    \* published after it subscribed (0: not subscribed)
    delivered,      \* per connection: the bus positions of the events written
    workspaces,     \* DaemonState.workspaces: id -> WorkspaceEntry
    disk,           \* the entries in the file at storage_path
    sessions,       \* DaemonState.sessions: id -> session
    child,          \* per session: its child process, "none", "alive", "killed"
    task,           \* per connection: the operation its handler runs, and where
    ret,            \* what an operation returned in the last step (NoRet: nothing)
    calls,          \* operations requested so far
    next_id,        \* ids handed out so far, plus one
    write_failed,   \* whether a write of the catalog file has failed
    clash,          \* the workspaces two operations were in progress on at once
    applied_to,     \* the argument a function of the program is applied to
    returned,       \* what the function gave back (NoOutput: not yet applied)
    git,            \* per connection: the repository its rename_worktree_upstream
                    \* runs in, the remote it chose and the commands it has run
    locks           \* the three mutexes of the state: who holds each, and how
                    \* far each operation is through its locks and awaits

connVars == <<conn, authenticated, events_task, write_task, rx, out, pending,
              io, nlines, peer, subscribed, delivered>>
busVars == <<bus, lagged, missed>>
fnVars == <<applied_to, returned, git, locks>>
catVars == <<workspaces, disk, sessions, child, task, ret, calls, next_id,
             write_failed, clash, fnVars>>
otherVars == <<token, connVars, busVars, fnVars>>
vars == <<token, connVars, busVars, catVars>>

NoFrame == Garbage

\* applied_to, returned: no function is being applied
NoInput == <<>>
NoOutput == [by |-> "", value |-> <<>>]

\* io: what handle_client of connection c did in the step: the line it read
\* (read), whether it called handle_rpc_request (rpc), and the response it
\* handed to out_tx.send (reply, <<>> when none)
NoIo == [c |-> "", read |-> FALSE, line |-> Garbage, rpc |-> FALSE, reply |-> <<>>]
ReadIo(c, line, rpc, resp) ==
    [c |-> c, read |-> TRUE, line |-> line, rpc |-> rpc, reply |-> resp]
ReturnIo(c, resp) ==
    [c |-> c, read |-> FALSE, line |-> Garbage, rpc |-> FALSE, reply |-> resp]

(***************************************************************************)
(* Responses and notifications (lines 1465-1495).                          *)
(***************************************************************************)
Response(k, id, msg) == [k |-> k, id |-> id, msg |-> msg, seq |-> 0]

build_error_response(id, message) ==
    IF id = NoId THEN <<>> ELSE <<Response("error", id, message)>>

build_result_response(id, result) ==
    IF id = NoId THEN <<>> ELSE <<Response("result", id, result)>>

\* event is [kind, seq]; serde_json::to_string of the payload does not fail
build_event_notification(event) ==
    <<[k |-> "event",
       id |-> NoId,
       msg |-> IF event.kind = "AppServer" THEN "app-server-event"
                                           ELSE "terminal-output",
       seq |-> event.seq]>>

\* as parse_auth_token, without the Value::Object arm
parse_auth_token_string_only(params) ==
    IF params.t = "str" THEN Some(params.s) ELSE None

parse_auth_token(params) ==
    CASE params.t = "str" -> Some(params.s)
      [] params.t = "obj" /\ params.tok = "str" -> Some(params.s)
      [] OTHER -> None

(***************************************************************************)
(* The bus: tokio::sync::broadcast with Capacity slots.                    *)
(***************************************************************************)
\* position of the oldest event the ring still holds
Oldest == IF Len(bus) > Capacity THEN Len(bus) - Capacity + 1 ELSE 1

\* as subscribe, with the receiver starting at the oldest retained event
subscribe_at_oldest == Oldest

\* events.subscribe(): the receiver starts after everything published so far
subscribe == Len(bus) + 1

\* the sender side is owned by main and by DaemonState for the life of the
\* process, so the channel never closes
bus_closed == FALSE

\* as send_ready, for a channel that waits for room (a bounded mpsc): no
\* running receiver still has the slot to be overwritten to read
send_ready_when_room ==
    \/ Len(bus) < Capacity
    \/ \A c \in Conns : events_task[c] = "running" => rx[c] > Oldest

\* tx.send(event): stores the event, overwriting the oldest slot; it does not
\* wait for any receiver
send_ready == TRUE

Emit(kind) ==
    /\ Len(bus) < MaxEvents
    /\ send_ready
    /\ bus' = Append(bus, kind)
    /\ io' = NoIo
    /\ UNCHANGED <<catVars, peer, subscribed, delivered, token, conn, authenticated, events_task, write_task, rx, out,
                   pending, nlines, lagged, missed>>

emit_app_server_event == Emit("AppServer")

emit_terminal_output == Emit("TerminalOutput")

(***************************************************************************)
(* handle_client (lines 1807-1901).                                        *)
(***************************************************************************)
\* as out_send, with the channel handing out the newest message first
out_send_stacked(c, msgs) ==
    IF write_task[c] = "running" THEN msgs \o out[c] ELSE out[c]

\* as out_send, with a message dropped while the writer still holds one
out_send_when_empty(c, msgs) ==
    IF write_task[c] = "running" /\ out[c] = <<>> THEN msgs ELSE out[c]

\* out_tx.send(message): accepted while write_task still holds out_rx; the
\* error of a closed channel is ignored (let _ =)
out_send(c, msgs) ==
    IF write_task[c] = "running" THEN out[c] \o msgs ELSE out[c]

\* as initially_authenticated, with every connection starting unauthenticated
initially_authenticated_never == FALSE

\* line 1828: the connection's state before its first line
initially_authenticated == ~token.some

\* as subscribes_on_accept, with the forwarder started before the auth gate
subscribes_on_accept_always == TRUE

\* line 1831
subscribes_on_accept == initially_authenticated

Accept(c) ==
    /\ conn[c] = "idle"
    /\ conn' = [conn EXCEPT ![c] = "open"]
    /\ write_task' = [write_task EXCEPT ![c] = "running"]
    /\ authenticated' = [authenticated EXCEPT ![c] = initially_authenticated]
    /\ IF subscribes_on_accept
       THEN /\ rx' = [rx EXCEPT ![c] = subscribe]
            /\ subscribed' = [subscribed EXCEPT ![c] = Len(bus) + 1]
            /\ events_task' = [events_task EXCEPT ![c] = "running"]
       ELSE UNCHANGED <<rx, subscribed, events_task>>
    /\ io' = NoIo
    /\ UNCHANGED <<catVars, peer, delivered, token, out, pending, nlines, busVars>>

\* as token_mismatch, with an absent token (unwrap_or_default gives "") let in
token_mismatch_unless_absent(expected, provided) ==
    expected # provided /\ provided # ""

\* line 1866: expected != provided
token_mismatch(expected, provided) == expected # provided

\* as auth_gate, without the comparison of line 1866
auth_gate_any_token(frame) ==
    IF frame.method # "auth" THEN "unauthorized" ELSE "accept"

\* lines 1856-1883: what a frame does to an unauthenticated connection:
\* "unauthorized", "invalid token" or "accept"
auth_gate(frame) ==
    IF frame.method # "auth"
    THEN "unauthorized"
    ELSE IF token_mismatch(unwrap_or_default(token),
                           unwrap_or_default(parse_auth_token(frame.params)))
         THEN "invalid token"
         ELSE "accept"

\* handle_rpc_request (lines 1565-1784) as far as the connection sees it:
\* "ping" answers at once, the methods that wait for a child may suspend,
\* and a name outside the table is an unknown method.
rpc_kind(method) ==
    CASE method = "ping" -> "ok"
      [] method = "start_thread" -> "child"
      [] OTHER -> "unknown"

\* as reply, with both responses built for a result
reply_with_both(id, result) ==
    build_result_response(id, result.v) \o build_error_response(id, result.v)

\* lines 1887-1890
reply(id, result) ==
    IF result.ok THEN build_result_response(id, result.v)
                 ELSE build_error_response(id, result.v)

Ok(v) == [ok |-> TRUE, v |-> v]
Err(v) == [ok |-> FALSE, v |-> v]

\* line 1782: format!("unknown method: {method}")
unknown_method(method) ==
    CASE method = "auth" -> "unknown method: auth"
      [] method = "ping" -> "unknown method: ping"
      [] method = "start_thread" -> "unknown method: start_thread"
      [] OTHER -> "unknown method: "

\* the results handle_rpc_request can give without waiting for a child
ImmediateResults(method) ==
    CASE rpc_kind(method) = "ok" -> {Ok("ok")}
      [] rpc_kind(method) = "child" -> {Err("workspace not connected")}
      [] OTHER -> {Err(unknown_method(method))}

\* the results of a request that waited for the child
ChildResults == {Ok("value"), Err("child error")}

\* lines 1838-1846: a blank line or one that is not JSON is skipped
SkipLine(c, line) ==
    /\ ~line.json
    /\ io' = ReadIo(c, line, FALSE, <<>>)
    /\ UNCHANGED <<catVars, peer, subscribed, delivered, token, conn, authenticated, events_task, write_task, rx, out,
                   pending, busVars>>

\* lines 1856-1883
Unauthenticated(c, frame) ==
    /\ frame.json
    /\ ~authenticated[c]
    /\ LET gate == auth_gate(frame)
           response == IF gate = "accept"
                       THEN build_result_response(frame.id, "ok")
                       ELSE build_error_response(frame.id, gate)
       IN  /\ out' = [out EXCEPT ![c] = out_send(c, response)]
           /\ io' = ReadIo(c, frame, FALSE, response)
           /\ IF gate = "accept"
              THEN /\ authenticated' = [authenticated EXCEPT ![c] = TRUE]
                   /\ rx' = [rx EXCEPT ![c] = subscribe]
                   /\ subscribed' = [subscribed EXCEPT ![c] = Len(bus) + 1]
                   /\ events_task' = [events_task EXCEPT ![c] = "running"]
              ELSE UNCHANGED <<authenticated, rx, subscribed, events_task>>
    /\ UNCHANGED <<catVars, peer, delivered, token, conn, write_task, pending, busVars>>

\* as DispatchImmediate, with an auth frame answered by a new subscription
DispatchImmediate_subscribes_again(c, frame) ==
    /\ frame.json
    /\ authenticated[c]
    /\ \E result \in ImmediateResults(frame.method) :
          /\ out' = [out EXCEPT ![c] = out_send(c, reply(frame.id, result))]
          /\ io' = ReadIo(c, frame, TRUE, reply(frame.id, result))
    /\ IF frame.method = "auth"
       THEN /\ rx' = [rx EXCEPT ![c] = subscribe]
            /\ subscribed' = [subscribed EXCEPT ![c] = Len(bus) + 1]
       ELSE UNCHANGED <<rx, subscribed>>
    /\ UNCHANGED <<catVars, peer, delivered, token, conn, authenticated,
                   events_task, write_task, pending, busVars>>

\* lines 1885-1893, handle_rpc_request returning without suspending
DispatchImmediate(c, frame) ==
    /\ frame.json
    /\ authenticated[c]
    /\ \E result \in ImmediateResults(frame.method) :
          /\ out' = [out EXCEPT ![c] = out_send(c, reply(frame.id, result))]
          /\ io' = ReadIo(c, frame, TRUE, reply(frame.id, result))
    /\ UNCHANGED <<catVars, peer, subscribed, delivered, token, conn, authenticated, events_task, write_task, rx,
                   pending, busVars>>

\* lines 1885-1886, handle_rpc_request suspending on the child's reply
DispatchSuspend(c, frame) ==
    /\ frame.json
    /\ authenticated[c]
    /\ rpc_kind(frame.method) = "child"
    /\ pending' = [pending EXCEPT ![c] = frame]
    /\ io' = ReadIo(c, frame, TRUE, <<>>)
    /\ UNCHANGED <<catVars, peer, subscribed, delivered, token, conn, authenticated, events_task, write_task, rx, out,
                   busVars>>

\* one turn of the loop at line 1837, reading a line of `input`
ReadLine(c, input) ==
    /\ conn[c] = "open"
    /\ pending[c] = NoFrame
    /\ task[c].pc = "idle"
    /\ nlines' = nlines + 1
    /\ \E line \in input :
          \/ SkipLine(c, line)
          \/ Unauthenticated(c, line)
          \/ DispatchImmediate(c, line)
          \/ DispatchSuspend(c, line)

\* lines 1886-1893: the suspended handle_rpc_request returns
RpcReturn(c) ==
    /\ pending[c] # NoFrame
    /\ \E result \in ChildResults :
          /\ out' = [out EXCEPT ![c] = out_send(c, reply(pending[c].id, result))]
          /\ io' = ReturnIo(c, reply(pending[c].id, result))
    /\ pending' = [pending EXCEPT ![c] = NoFrame]
    /\ UNCHANGED <<catVars, peer, subscribed, delivered, token, conn, authenticated, events_task, write_task, rx,
                   nlines, busVars>>

\* as CloseInbound, with the connection torn down as soon as its socket
\* closes, whatever its handler is doing
CloseInbound_at_once(c) ==
    /\ conn[c] = "open"
    /\ conn' = [conn EXCEPT ![c] = "closed"]
    /\ events_task' = [events_task EXCEPT
                         ![c] = IF @ = "running" THEN "aborted" ELSE @]
    /\ write_task' = [write_task EXCEPT
                        ![c] = IF @ = "running" THEN "aborted" ELSE @]
    /\ out' = [out EXCEPT ![c] = <<>>]
    /\ io' = NoIo
    /\ UNCHANGED <<catVars, peer, subscribed, delivered, token, authenticated,
                   rx, pending, nlines, busVars>>

\* as CloseInbound, with the loop left and neither task aborted
CloseInbound_keeps_tasks(c) ==
    /\ conn[c] = "open"
    /\ pending[c] = NoFrame
    /\ task[c].pc = "idle"
    /\ conn' = [conn EXCEPT ![c] = "closed"]
    /\ io' = NoIo
    /\ UNCHANGED <<catVars, peer, subscribed, delivered, token, authenticated,
                   events_task, write_task, out, rx, pending, nlines, busVars>>

\* lines 1896-1900: next_line gave None or an error; the loop ends
CloseInbound(c) ==
    /\ conn[c] = "open"
    /\ pending[c] = NoFrame
    /\ task[c].pc = "idle"
    /\ conn' = [conn EXCEPT ![c] = "closed"]
    /\ events_task' = [events_task EXCEPT
                         ![c] = IF @ = "running" THEN "aborted" ELSE @]
    /\ write_task' = [write_task EXCEPT
                        ![c] = IF @ = "running" THEN "aborted" ELSE @]
    /\ out' = [out EXCEPT ![c] = <<>>]
    /\ io' = NoIo
    /\ UNCHANGED <<catVars, peer, subscribed, delivered, token, authenticated, rx, pending, nlines, busVars>>

(***************************************************************************)
(* write_task (lines 1817-1826).                                           *)
(***************************************************************************)
\* the events written so far, after `message` was written
written(events, message) ==
    IF message.k = "event" THEN Append(events, message.seq) ELSE events

\* lines 1818-1824: out_rx.recv() and write_all of the message
WriterStep(c) ==
    /\ write_task[c] = "running"
    /\ out[c] # <<>>
    /\ out' = [out EXCEPT ![c] = Tail(@)]
    /\ delivered' = [delivered EXCEPT ![c] = written(@, Head(out[c]))]
    /\ io' = NoIo
    /\ UNCHANGED <<catVars, peer, subscribed, token, conn, authenticated, events_task, write_task, rx,
                   pending, nlines, busVars>>

\* writer.write_all fails: the task breaks and drops out_rx with what it holds
WriterFail(c) ==
    /\ write_task[c] = "running"
    /\ out[c] # <<>>
    /\ write_task' = [write_task EXCEPT ![c] = "finished"]
    /\ out' = [out EXCEPT ![c] = <<>>]
    /\ io' = NoIo
    /\ UNCHANGED <<catVars, peer, subscribed, delivered, token, conn, authenticated, events_task, rx, pending, nlines,
                   busVars>>

(***************************************************************************)
(* forward_events (lines 1786-1805).                                       *)
(***************************************************************************)
\* rx.recv(): what the receiver at position pos gets
recv(pos) ==
    CASE pos < Oldest -> "Lagged"
      [] pos <= Len(bus) -> "Ok"
      [] bus_closed -> "Closed"
      [] OTHER -> "Pending"

\* as on_recv, with a lagged receiver ending the loop
on_recv_lag_breaks(result) ==
    CASE result = "Lagged" -> "break"
      [] result = "Closed" -> "break"
      [] OTHER -> "forward"

\* lines 1791-1795: what the loop does with recv's result
on_recv(result) ==
    CASE result = "Lagged" -> "continue"
      [] result = "Closed" -> "break"
      [] OTHER -> "forward"

Forward(c) ==
    /\ events_task[c] = "running"
    /\ recv(rx[c]) # "Pending"
    /\ LET result == recv(rx[c])
           todo == on_recv(result)
       IN  CASE todo = "continue" ->
                  /\ rx' = [rx EXCEPT ![c] = Oldest]
                  /\ lagged' = [lagged EXCEPT ![c] = TRUE]
                  /\ missed' = [missed EXCEPT ![c] = @ \cup (rx[c] .. Oldest - 1)]
                  /\ UNCHANGED <<events_task, out>>
             [] todo = "break" ->
                  /\ events_task' = [events_task EXCEPT ![c] = "finished"]
                  /\ lagged' = [lagged EXCEPT ![c] = @ \/ result = "Lagged"]
                  /\ UNCHANGED <<missed, rx, out>>
             [] OTHER ->
                  /\ rx' = [rx EXCEPT ![c] = @ + 1]
                  /\ IF write_task[c] = "running"
                     THEN /\ out' = [out EXCEPT ![c] = out_send(c,
                                build_event_notification(
                                    [kind |-> bus[rx[c]], seq |-> rx[c]]))]
                          /\ UNCHANGED events_task
                     ELSE /\ events_task' = [events_task EXCEPT ![c] = "finished"]
                          /\ UNCHANGED out
                  /\ UNCHANGED <<lagged, missed>>
    /\ io' = NoIo
    /\ UNCHANGED <<catVars, peer, subscribed, delivered, token, conn, authenticated, write_task, pending, nlines, bus>>

(***************************************************************************)
(* The workspace catalog (DaemonState, lines 70-78).                       *)
(***************************************************************************)
\* ids Uuid::new_v4 hands out: the initial catalog holds at most two entries
\* and an operation adds at most one
Ids == 1 .. (MaxCalls + 2)
\* sessions: SpecSess starts with two, and an operation spawns at most one
Sids == 1 .. (MaxCalls + MaxRequests + 2)
\* parent_id: None
NoParent == 0
NoSession == 0

\* branch names
Branches == {"a", "b"}

\* the `branch` parameter as a client may send it, character by character:
\* a name, a blank text, a name with white space after it
BranchInputs == {<<b>> : b \in Branches} \cup {<<" ">>, <<"a", " ">>}

\* char::is_whitespace, for the characters of BranchInputs
is_whitespace(ch) == ch \in {" ", "\t", "\n"}

\* str::trim_start, str::trim_end
RECURSIVE trim_start(_)
trim_start(text) ==
    IF text # <<>> /\ is_whitespace(Head(text)) THEN trim_start(Tail(text))
    ELSE text

RECURSIVE trim_end(_)
trim_end(text) ==
    IF text # <<>> /\ is_whitespace(text[Len(text)])
    THEN trim_end(SubSeq(text, 1, Len(text) - 1))
    ELSE text

\* str::trim (lines 212 and 442)
trim(text) == trim_end(trim_start(text))

\* the String of a sequence of characters
RECURSIVE to_string(_)
to_string(text) ==
    IF text = <<>> THEN "" ELSE Head(text) \o to_string(Tail(text))

(***************************************************************************)
(* sanitize_worktree_name (lines 1323-1338), on a sequence of characters.  *)
(***************************************************************************)
\* char::is_ascii_alphanumeric
is_ascii_alphanumeric(ch) ==
    ch \in {
     "a", "b", "c", "d", "e", "f", "g", "h", "i", "j", "k", "l", "m",
     "n", "o", "p", "q", "r", "s", "t", "u", "v", "w", "x", "y", "z",
     "A", "B", "C", "D", "E", "F", "G", "H", "I", "J", "K", "L", "M",
     "N", "O", "P", "Q", "R", "S", "T", "U", "V", "W", "X", "Y", "Z",
     "0", "1", "2", "3", "4", "5", "6", "7", "8", "9" }

\* line 1326: the characters that are kept
is_kept(ch) == is_ascii_alphanumeric(ch) \/ ch \in {"-", "_", "."}

\* str::trim_matches(pat): the text without its leading and trailing pat
RECURSIVE trim_start_matches(_, _)
trim_start_matches(text, pat) ==
    IF text # <<>> /\ Head(text) = pat THEN trim_start_matches(Tail(text), pat)
    ELSE text

RECURSIVE trim_end_matches(_, _)
trim_end_matches(text, pat) ==
    IF text # <<>> /\ text[Len(text)] = pat
    THEN trim_end_matches(SubSeq(text, 1, Len(text) - 1), pat)
    ELSE text

trim_matches(text, pat) == trim_end_matches(trim_start_matches(text, pat), pat)

\* as sanitize_worktree_name, with only the leading '-' trimmed
sanitize_worktree_name_trim_start(branch) ==
    LET result == [i \in 1..Len(branch) |->
                      IF is_kept(branch[i]) THEN branch[i] ELSE "-"]
        trimmed == trim_start_matches(result, "-")
    IN  IF trimmed = <<>> THEN <<"w", "o", "r", "k", "t", "r", "e", "e">>
        ELSE trimmed

\* lines 1323-1338
sanitize_worktree_name(branch) ==
    LET result == [i \in 1..Len(branch) |->
                      IF is_kept(branch[i]) THEN branch[i] ELSE "-"]
        trimmed == trim_matches(result, "-")
    IN  IF trimmed = <<>> THEN <<"w", "o", "r", "k", "t", "r", "e", "e">>
        ELSE trimmed
\* WorkspaceSettings: the default and another value
DefaultSettings == 0
Settings == {0, 1}

\* WorkspaceEntry, as add_workspace (lines 158-167) and add_worktree
\* (lines 259-270) build it
\* the path of the repository of a Main workspace, and (lines 229-235 and
\* 484-492) of the directory of a worktree: worktrees/<parent_id>/<safe_name>
RepoPath == [dir |-> NoParent, file |-> "repo"]
worktree_path(parent_id, branch) ==
    [dir |-> parent_id, file |-> to_string(sanitize_worktree_name(branch))]

MainEntry(id) ==
    [id |-> id, name |-> "repo", path |-> RepoPath, codex_bin |-> None,
     kind |-> "Main", parent_id |-> NoParent, worktree |-> None,
     settings |-> DefaultSettings]
\* branch is the trimmed branch, character by character
WorktreeEntry(id, parent_id, branch) ==
    [id |-> id, name |-> to_string(branch),
     path |-> worktree_path(parent_id, branch), codex_bin |-> None,
     kind |-> "Worktree", parent_id |-> parent_id,
     worktree |-> Some(to_string(branch)), settings |-> DefaultSettings]

is_worktree(entry) == entry.kind = "Worktree"

\* HashMap::insert, HashMap::remove
insert(map, key, value) ==
    [k \in DOMAIN map \cup {key} |-> IF k = key THEN value ELSE map[k]]
remove(map, keys) == [k \in DOMAIN map \ keys |-> map[k]]
EmptyMap == [k \in {} |-> 0]

\* as catalog_values, with the entries the file held kept in it
catalog_values_appended(map) == disk \cup {map[k] : k \in DOMAIN map}

\* workspaces.values().cloned().collect(): the snapshot a mutation writes
catalog_values(map) == {map[k] : k \in DOMAIN map}

\* storage.rs: the file after write_workspaces(path, list) has succeeded, and
\* read_workspaces(path), the entries of the file keyed by id
write_workspaces(list) == list
read_workspaces(file) ==
    [k \in {e.id : e \in file} |-> CHOOSE e \in file : e.id = k]

\* the catalog files the daemon may find when it starts; the branch "a+" has
\* the sanitized name of the branch "a"
InitialFiles ==
    { {},
      {MainEntry(1)},
      {MainEntry(1), WorktreeEntry(2, 1, <<"a">>)},
      {MainEntry(1), WorktreeEntry(2, 1, <<"a", "+">>)} }

\* a reply slot that is not fulfilled
NoReply == [ok |-> FALSE, v |-> ""]

\* a handler that runs no operation
Idle ==
    [op |-> "", pc |-> "idle", id |-> 0, parent_id |-> NoParent, branch |-> <<>>,
     children |-> {}, removed |-> {}, failures |-> {},
     session |-> NoSession, taken |-> {}, next |-> "", slot |-> NoReply,
     path |-> [dir |-> NoParent, file |-> ""], had |-> FALSE]

\* what an operation returns to handle_rpc_request: ok, and the error message
\* (msg, and the workspaces that the lines appended to it name, listed);
\* undo: what the compensating git command the operation ran before it
\* returned came to, "" when it ran none; connected: the `connected` of the
\* WorkspaceInfo that rename_worktree returns; renamed, moved: whether the
\* `git branch -m` and the `git worktree move` of rename_worktree succeeded
\* before it returned
NoRet ==
    [c |-> "", op |-> "", id |-> 0, ok |-> FALSE, msg |-> "", listed |-> {},
     undo |-> "", connected |-> FALSE, renamed |-> FALSE, moved |-> FALSE]
Ret(c, op, id, ok, msg) ==
    [c |-> c, op |-> op, id |-> id, ok |-> ok, msg |-> msg, listed |-> {},
     undo |-> "", connected |-> FALSE, renamed |-> FALSE, moved |-> FALSE]

\* the session spawn_workspace_session creates next
fresh_session ==
    CHOOSE s \in Sids :
        child[s] = "none" /\ \A r \in Sids : r < s => child[r] # "none"

\* ids handed out so far: the ids a client may name
Known == 1 .. (next_id - 1)

\* write_workspaces(&storage_path, &list)?, after the catalog became map:
\* wrote tells whether the write succeeded
Persist(map, wrote) ==
    /\ workspaces' = map
    /\ disk' = IF wrote THEN write_workspaces(catalog_values(map)) ELSE disk
    /\ write_failed' = (write_failed \/ ~wrote)

\* the workspaces the operation of a handler acts on: its workspace, the
\* children remove_workspace enumerated, the parent add_worktree adds to
Touched(t) ==
    IF t.pc = "idle" THEN {}
    ELSE ({t.id} \cup t.children \cup t.removed \cup t.failures
            \cup (IF t.op = "add_worktree" THEN {t.parent_id} ELSE {})) \ {0}

\* the workspaces that more than one of the operations in progress acts on
Clashing(tasks) ==
    {id \in Ids : \E c, d \in Clients :
        c # d /\ id \in Touched(tasks[c]) /\ id \in Touched(tasks[d])}

\* an operation starts on connection c
Begin(c) ==
    /\ task[c].pc = "idle"
    /\ calls' = calls + 1

\* the operation goes on to its next suspension point
Goto(c, fields) ==
    /\ task' = [task EXCEPT ![c] = fields]
    /\ ret' = NoRet
    /\ clash' = clash \cup Clashing(task')

\* the operation of connection c returns
Return(c, ok, msg) ==
    /\ task' = [task EXCEPT ![c] = Idle]
    /\ ret' = Ret(c, task[c].op, task[c].id, ok, msg)
    /\ clash' = clash

\* lines 379-384: remove_workspace returns the message with one line for
\* each (child_id, error) of failures
ReturnFailures(c, failures) ==
    /\ task' = [task EXCEPT ![c] = Idle]
    /\ ret' = [Ret(c, task[c].op, task[c].id, FALSE,
                   "Failed to remove one or more worktrees")
                   EXCEPT !.listed = failures]
    /\ clash' = clash

\* the operation returns before its first suspension point
ReturnNow(c, op, id, ok, msg) ==
    /\ task' = task
    /\ ret' = Ret(c, op, id, ok, msg)
    /\ clash' = clash \cup {i \in {id} : \E d \in Clients \ {c} :
                                            i \in Touched(task[d])}

\* lines 566-578: rename_worktree returns the WorkspaceInfo of its entry
ReturnInfo(c, connected) ==
    /\ task' = [task EXCEPT ![c] = Idle]
    /\ ret' = [Ret(c, task[c].op, task[c].id, TRUE, "")
                   EXCEPT !.connected = connected]
    /\ clash' = clash

At(c, op, pc) == task[c].op = op /\ task[c].pc = pc

(***************************************************************************)
(* kill_session (lines 103-115): the session leaves the map, then the      *)
(* child is killed, then its exit is awaited.                              *)
(***************************************************************************)
\* lines 104-111, called for workspace id by the operation that goes on at
\* `next`: fields are the operation's locals, taken the sessions the
\* operation has removed from the map so far
kill_session(c, id, fields, next) ==
    IF id \in DOMAIN sessions
    THEN /\ sessions' = remove(sessions, {id})
         /\ Goto(c, [fields EXCEPT !.session = sessions[id], !.pc = "kill",
                                   !.taken = @ \cup {sessions[id]},
                                   !.next = next])
    ELSE /\ UNCHANGED sessions
         /\ Goto(c, [fields EXCEPT !.pc = next])

\* as child_kill, with the child left running
child_kill_skipped(s) == child

\* line 114: child.kill()
child_kill(s) == [child EXCEPT ![s] = "killed"]

kill_session_kill(c) ==
    /\ task[c].pc = "kill"
    /\ child' = child_kill(task[c].session)
    /\ Goto(c, [task[c] EXCEPT !.pc = "killed"])
    /\ UNCHANGED <<otherVars, workspaces, disk, sessions, calls, next_id, write_failed>>

kill_session_return(c) ==
    /\ task[c].pc = "killed"
    /\ Goto(c, [task[c] EXCEPT !.pc = task[c].next, !.session = NoSession,
                               !.next = ""])
    /\ UNCHANGED <<otherVars, workspaces, disk, sessions, child, calls, next_id, write_failed>>

(***************************************************************************)
(* list_workspaces (lines 117-136): both maps are read under their locks,  *)
(* which no operation holds across a suspension point, so the call reads   *)
(* one state.  sort_workspaces orders the result; the result is kept here  *)
(* as the set of its elements.                                             *)
(***************************************************************************)
\* as contains_key, for a map that holds every key
contains_key_always(map, key) == TRUE

\* HashMap::contains_key
contains_key(map, key) == key \in DOMAIN map

\* lines 122-132
WorkspaceInfo(entry) ==
    [id |-> entry.id, name |-> entry.name, path |-> entry.path,
     connected |-> contains_key(sessions, entry.id),
     codex_bin |-> entry.codex_bin,
     kind |-> entry.kind, parent_id |-> entry.parent_id,
     worktree |-> entry.worktree, settings |-> entry.settings]

list_workspaces == {WorkspaceInfo(workspaces[id]) : id \in DOMAIN workspaces}

(***************************************************************************)
(* spawn_workspace_session and the steps after it.                         *)
(***************************************************************************)
after_spawn(op) ==
    IF op \in {"add_workspace", "add_worktree"} THEN "insert" ELSE "register"

\* as spawn_workspace_session, for an add_workspace that has its entry in the
\* catalog before the session is spawned
spawn_workspace_session_entry_first(c) ==
    /\ task[c].pc = "spawn"
    /\ \E spawned \in BOOLEAN :
         IF spawned
         THEN /\ child' = [child EXCEPT ![fresh_session] = "alive"]
              /\ Goto(c, [task[c] EXCEPT !.session = fresh_session,
                                         !.pc = after_spawn(task[c].op)])
              /\ UNCHANGED workspaces
         ELSE /\ UNCHANGED child
              /\ workspaces' = IF task[c].op = "add_workspace"
                               THEN insert(workspaces, task[c].id,
                                           MainEntry(task[c].id))
                               ELSE workspaces
              /\ IF task[c].op = "rename_worktree"
                 THEN ReturnInfo(c, contains_key(sessions, task[c].id))
                 ELSE Return(c, FALSE, "spawn failed")
    /\ UNCHANGED <<otherVars, disk, sessions, calls, next_id, write_failed>>

\* lines 175-182, 278-285, 542-563, 761-768
spawn_workspace_session(c) ==
    /\ task[c].pc = "spawn"
    /\ \E spawned \in BOOLEAN :
         IF spawned
         THEN /\ child' = [child EXCEPT ![fresh_session] = "alive"]
              /\ Goto(c, [task[c] EXCEPT !.session = fresh_session,
                                         !.pc = after_spawn(task[c].op)])
         ELSE /\ UNCHANGED child
              /\ IF task[c].op = "rename_worktree"
                 THEN ReturnInfo(c, contains_key(sessions, task[c].id))
                 ELSE Return(c, FALSE, "spawn failed")
    /\ UNCHANGED <<otherVars, workspaces, disk, sessions, calls, next_id, write_failed>>

\* lines 184-189 and 287-292
insert_entry(c) ==
    /\ task[c].pc = "insert"
    /\ LET t == task[c]
           entry == IF t.op = "add_workspace" THEN MainEntry(t.id)
                    ELSE WorktreeEntry(t.id, t.parent_id, t.branch)
       IN  \E wrote \in BOOLEAN :
             /\ Persist(insert(workspaces, t.id, entry), wrote)
             /\ IF wrote THEN Goto(c, [t EXCEPT !.pc = "register"])
                ELSE Return(c, FALSE, "write failed")
    /\ UNCHANGED <<otherVars, sessions, child, calls, next_id>>

\* lines 191, 294, 552-555 and 770
register_session(c) ==
    /\ task[c].pc = "register"
    /\ sessions' = insert(sessions, task[c].id, task[c].session)
    /\ IF task[c].op = "rename_worktree"
       THEN ReturnInfo(c, contains_key(sessions', task[c].id))
       ELSE Return(c, TRUE, "")
    /\ UNCHANGED <<otherVars, workspaces, disk, child, calls, next_id, write_failed>>

(***************************************************************************)
(* add_workspace (lines 142-204) and add_worktree (lines 206-307).         *)
(***************************************************************************)
add_workspace(c) ==
    /\ Begin(c)
    /\ next_id' = next_id + 1
    /\ Goto(c, [Idle EXCEPT !.op = "add_workspace", !.pc = "spawn",
                            !.id = next_id])
    /\ UNCHANGED <<otherVars, workspaces, disk, sessions, child, write_failed>>

\* as add_worktree_error, with a worktree accepted as the parent
add_worktree_error_any_parent(parent_id, input) ==
    IF to_string(trim(input)) = "" THEN "Branch name is required."
    ELSE IF parent_id \notin DOMAIN workspaces THEN "parent workspace not found"
    ELSE ""

\* lines 212-227: the error add_worktree returns before it runs git, or ""
add_worktree_error(parent_id, input) ==
    IF to_string(trim(input)) = "" THEN "Branch name is required."
    ELSE IF parent_id \notin DOMAIN workspaces THEN "parent workspace not found"
    ELSE IF is_worktree(workspaces[parent_id])
    THEN "Cannot create a worktree from another worktree."
    ELSE ""

\* lines 212-227
add_worktree(c) ==
    /\ Begin(c)
    /\ \E parent_id \in Known, input \in BranchInputs :
         IF add_worktree_error(parent_id, input) # ""
         THEN ReturnNow(c, "add_worktree", parent_id, FALSE,
                        add_worktree_error(parent_id, input))
         ELSE Goto(c, [Idle EXCEPT !.op = "add_worktree", !.pc = "git",
                                   !.parent_id = parent_id,
                                   !.branch = trim(input)])
    /\ UNCHANGED <<otherVars, workspaces, disk, sessions, child, next_id, write_failed>>

\* lines 229-270: the worktree directory and `git worktree add`
add_worktree_git(c) ==
    /\ At(c, "add_worktree", "git")
    /\ \E added \in BOOLEAN :
         IF added
         THEN /\ next_id' = next_id + 1
              /\ Goto(c, [task[c] EXCEPT !.id = next_id, !.pc = "spawn"])
         ELSE /\ UNCHANGED next_id
              /\ Return(c, FALSE, "git failed")
    /\ UNCHANGED <<otherVars, workspaces, disk, sessions, child, calls, write_failed>>

(***************************************************************************)
(* remove_workspace (lines 309-385).                                       *)
(***************************************************************************)
\* lines 310-322
remove_workspace(c) ==
    /\ Begin(c)
    /\ \E id \in Known :
         IF id \notin DOMAIN workspaces
         THEN ReturnNow(c, "remove_workspace", id, FALSE, "workspace not found")
         ELSE IF is_worktree(workspaces[id])
         THEN ReturnNow(c, "remove_workspace", id, FALSE,
                        "Use remove_worktree for worktree agents.")
         ELSE Goto(c, [Idle EXCEPT
                  !.op = "remove_workspace", !.pc = "children", !.id = id,
                  !.children = {k \in DOMAIN workspaces :
                                    workspaces[k].parent_id = id}])
    /\ UNCHANGED <<otherVars, workspaces, disk, sessions, child, next_id, write_failed>>

\* lines 328-354, for one child: `git worktree remove` and kill_session
remove_workspace_child(c) ==
    /\ At(c, "remove_workspace", "children")
    /\ \E k \in task[c].children, removed \in BOOLEAN :
         IF removed
         THEN kill_session(c, k,
                  [task[c] EXCEPT !.children = @ \ {k}, !.removed = @ \cup {k}],
                  "children")
         ELSE /\ Goto(c, [task[c] EXCEPT !.children = @ \ {k},
                                         !.failures = @ \cup {k}])
              /\ UNCHANGED sessions
    /\ UNCHANGED <<otherVars, workspaces, disk, child, calls, next_id, write_failed>>

\* as remove_workspace_prune, with the parent's session killed whether or
\* not the removal of a child failed
remove_workspace_prune_kills_parent(c) ==
    /\ At(c, "remove_workspace", "children")
    /\ task[c].children = {}
    /\ kill_session(c, task[c].id, task[c], "commit")
    /\ UNCHANGED <<otherVars, workspaces, disk, child, calls, next_id, write_failed>>

\* lines 356-362: `git worktree prune`, then kill_session of the workspace
remove_workspace_prune(c) ==
    /\ At(c, "remove_workspace", "children")
    /\ task[c].children = {}
    /\ IF task[c].failures # {}
       THEN /\ Goto(c, [task[c] EXCEPT !.pc = "commit"])
            /\ UNCHANGED sessions
       ELSE kill_session(c, task[c].id, task[c], "commit")
    /\ UNCHANGED <<otherVars, workspaces, disk, child, calls, next_id, write_failed>>

\* as remove_workspace_commit, with the removed children left in the catalog
remove_workspace_commit_parent_only(c) ==
    /\ At(c, "remove_workspace", "commit")
    /\ LET t == task[c]
           ids_to_remove == IF t.failures # {} THEN {} ELSE {t.id}
       IN  IF ids_to_remove = {}
           THEN /\ UNCHANGED <<workspaces, disk, write_failed>>
                /\ ReturnFailures(c, t.failures)
           ELSE \E wrote \in BOOLEAN :
                  /\ Persist(remove(workspaces, ids_to_remove), wrote)
                  /\ IF ~wrote THEN Return(c, FALSE, "write failed")
                     ELSE Return(c, TRUE, "")
    /\ UNCHANGED <<otherVars, sessions, child, calls, next_id>>

\* lines 358-385
remove_workspace_commit(c) ==
    /\ At(c, "remove_workspace", "commit")
    /\ LET t == task[c]
           ids_to_remove ==
               t.removed \cup (IF t.failures # {} THEN {} ELSE {t.id})
       IN  IF ids_to_remove = {}
           THEN /\ UNCHANGED <<workspaces, disk, write_failed>>
                /\ ReturnFailures(c, t.failures)
           ELSE \E wrote \in BOOLEAN :
                  /\ Persist(remove(workspaces, ids_to_remove), wrote)
                  /\ IF ~wrote THEN Return(c, FALSE, "write failed")
                     ELSE IF t.failures # {}
                     THEN ReturnFailures(c, t.failures)
                     ELSE Return(c, TRUE, "")
    /\ UNCHANGED <<otherVars, sessions, child, calls, next_id>>

(***************************************************************************)
(* remove_worktree (lines 387-434) and rename_worktree (lines 436-578).    *)
(***************************************************************************)
\* lines 388-400 and 447-459: the entry and its parent, or the error
worktree_lookup(id) ==
    IF id \notin DOMAIN workspaces THEN "workspace not found"
    ELSE IF ~is_worktree(workspaces[id]) THEN "Not a worktree workspace."
    ELSE IF workspaces[id].parent_id \notin DOMAIN workspaces
    THEN "worktree parent not found"
    ELSE ""

remove_worktree(c) ==
    /\ Begin(c)
    /\ \E id \in Known :
         IF worktree_lookup(id) # ""
         THEN ReturnNow(c, "remove_worktree", id, FALSE, worktree_lookup(id))
         ELSE Goto(c, [Idle EXCEPT !.op = "remove_worktree", !.pc = "git",
                                   !.id = id,
                                   !.parent_id = workspaces[id].parent_id])
    /\ UNCHANGED <<otherVars, workspaces, disk, sessions, child, next_id, write_failed>>

\* what `git worktree remove --force` ends with: success, or its error
WorktreeRemoveResults == {"", "is not a working tree", "git failed"}

\* lines 1171-1173
is_missing_worktree_error(error) == error = "is not a working tree"

\* lines 405-420: the error remove_worktree returns after `git worktree
\* remove` ended with err and, where it is called, remove_dir_all with
\* dir_removed; "" if it goes on
worktree_remove_error(err, dir_removed) ==
    IF err = "" THEN ""
    ELSE IF is_missing_worktree_error(err)
    THEN (IF dir_removed THEN "" ELSE "Failed to remove worktree folder")
    ELSE err

\* as remove_worktree_git, with the session killed before git is run
remove_worktree_git_kills_first(c) ==
    /\ At(c, "remove_worktree", "git")
    /\ \E err \in WorktreeRemoveResults, dir_removed \in BOOLEAN :
         LET error == worktree_remove_error(err, dir_removed)
         IN  IF error = "" THEN kill_session(c, task[c].id, task[c], "commit")
             ELSE /\ Return(c, FALSE, error)
                  /\ sessions' = remove(sessions, {task[c].id})
    /\ UNCHANGED <<otherVars, workspaces, disk, child, calls, next_id, write_failed>>

\* lines 402-424: `git worktree remove`, prune, kill_session
remove_worktree_git(c) ==
    /\ At(c, "remove_worktree", "git")
    /\ \E err \in WorktreeRemoveResults, dir_removed \in BOOLEAN :
         LET error == worktree_remove_error(err, dir_removed)
         IN  IF error = "" THEN kill_session(c, task[c].id, task[c], "commit")
             ELSE /\ Return(c, FALSE, error)
                  /\ UNCHANGED sessions
    /\ UNCHANGED <<otherVars, workspaces, disk, child, calls, next_id, write_failed>>

\* lines 426-433
remove_worktree_commit(c) ==
    /\ At(c, "remove_worktree", "commit")
    /\ \E wrote \in BOOLEAN :
         /\ Persist(remove(workspaces, {task[c].id}), wrote)
         /\ IF wrote THEN Return(c, TRUE, "")
            ELSE Return(c, FALSE, "write failed")
    /\ UNCHANGED <<otherVars, sessions, child, calls, next_id>>

\* as rename_worktree_error, with the branch compared as it was sent
rename_worktree_error_untrimmed(id, input) ==
    IF to_string(trim(input)) = "" THEN "Branch name is required."
    ELSE IF worktree_lookup(id) # "" THEN worktree_lookup(id)
    ELSE IF ~workspaces[id].worktree.some THEN "worktree metadata missing"
    ELSE IF workspaces[id].worktree.v = to_string(input)
    THEN "Branch name is unchanged."
    ELSE ""

\* lines 442-468: the error rename_worktree returns before it runs git, or ""
rename_worktree_error(id, input) ==
    LET trimmed == to_string(trim(input))
    IN  IF trimmed = "" THEN "Branch name is required."
        ELSE IF worktree_lookup(id) # "" THEN worktree_lookup(id)
        ELSE IF ~workspaces[id].worktree.some THEN "worktree metadata missing"
        ELSE IF workspaces[id].worktree.v = trimmed
        THEN "Branch name is unchanged."
        ELSE ""

\* lines 442-468; had: whether the worktree has a session as the call starts
rename_worktree(c) ==
    /\ Begin(c)
    /\ \E id \in Known, input \in BranchInputs :
         IF rename_worktree_error(id, input) # ""
         THEN ReturnNow(c, "rename_worktree", id, FALSE,
                        rename_worktree_error(id, input))
         ELSE Goto(c, [Idle EXCEPT !.op = "rename_worktree", !.pc = "git",
                                   !.id = id, !.branch = trim(input),
                                   !.parent_id = workspaces[id].parent_id,
                                   !.path = workspaces[id].path,
                                   !.had = id \in DOMAIN sessions])
    /\ UNCHANGED <<otherVars, workspaces, disk, sessions, child, next_id, write_failed>>

\* what unique_branch_name, `git branch -m <old> <final>`, create_dir_all
\* and unique_worktree_path_for_rename come to: "" when all succeeded,
\* "git failed" when one of the first two failed, and the error of
\* line 486 (or of line 491) when the branch was renamed and the directory
\* could not be made (or no free path was found)
BranchRenameResults == {"", "git failed", "Failed to create worktree directory"}

\* what `git branch -m <final> <old>` comes to
BranchRestoreResults == {"restored", "git branch -m failed"}

\* the operation of connection c returns the error msg, having run the
\* compensating git command with the result undo
ReturnUndone(c, msg, undo) ==
    /\ task' = [task EXCEPT ![c] = Idle]
    /\ ret' = [Ret(c, task[c].op, task[c].id, FALSE, msg)
                   EXCEPT !.undo = undo, !.renamed = TRUE]
    /\ clash' = clash

\* the operation of connection c returns the error msg after its
\* `git branch -m <old> <final>` succeeded, having run no compensating
\* command; moved: its `git worktree move` was run, and succeeded
ReturnRenamed(c, msg, moved) ==
    /\ task' = [task EXCEPT ![c] = Idle]
    /\ ret' = [Ret(c, task[c].op, task[c].id, FALSE, msg)
                   EXCEPT !.renamed = TRUE, !.moved = moved]
    /\ clash' = clash

\* as rename_worktree_git, with the error of a failed compensation returned
\* in place of the error of the move
rename_worktree_git_masks(c) ==
    /\ At(c, "rename_worktree", "git")
    /\ LET t == task[c]
       IN  \E result \in BranchRenameResults :
             IF result = "git failed" THEN Return(c, FALSE, result)
             ELSE IF result # "" THEN ReturnRenamed(c, result, FALSE)
             ELSE IF worktree_path(t.parent_id, t.branch) # t.path
             THEN \E moved \in BOOLEAN :
                    IF moved THEN Goto(c, [t EXCEPT !.pc = "update"])
                    ELSE \E undo \in BranchRestoreResults :
                           ReturnUndone(c, IF undo = "restored"
                                           THEN "git worktree move failed"
                                           ELSE undo, undo)
             ELSE Goto(c, [t EXCEPT !.pc = "update"])
    /\ UNCHANGED <<otherVars, workspaces, disk, sessions, child, calls, next_id, write_failed>>

\* lines 470-507: the branch is renamed in git; when the path of the new
\* branch is not the path the entry had, `git worktree move` moves the
\* directory, and when that fails `git branch -m <final> <old>` is run, its
\* result dropped, and the error of the move returned
rename_worktree_git(c) ==
    /\ At(c, "rename_worktree", "git")
    /\ LET t == task[c]
       IN  \E result \in BranchRenameResults :
             IF result = "git failed" THEN Return(c, FALSE, result)
             ELSE IF result # "" THEN ReturnRenamed(c, result, FALSE)
             ELSE IF worktree_path(t.parent_id, t.branch) # t.path
             THEN \E moved \in BOOLEAN :
                    IF moved THEN Goto(c, [t EXCEPT !.pc = "update"])
                    ELSE \E undo \in BranchRestoreResults :
                           ReturnUndone(c, "git worktree move failed", undo)
             ELSE Goto(c, [t EXCEPT !.pc = "update"])
    /\ UNCHANGED <<otherVars, workspaces, disk, sessions, child, calls, next_id, write_failed>>

\* as rename_worktree_update, with the entry built anew for the new branch
rename_worktree_update_rebuilds(c) ==
    /\ At(c, "rename_worktree", "update")
    /\ LET t == task[c]
       IN  IF t.id \notin DOMAIN workspaces
           THEN /\ UNCHANGED <<workspaces, disk, write_failed>>
                /\ ReturnRenamed(c, "workspace not found",
                                 worktree_path(t.parent_id, t.branch) # t.path)
           ELSE \E wrote \in BOOLEAN :
                  /\ Persist(insert(workspaces, t.id,
                                    WorktreeEntry(t.id, t.parent_id, t.branch)),
                             wrote)
                  /\ IF wrote THEN Goto(c, [t EXCEPT !.pc = "connected"])
                     ELSE ReturnRenamed(c, "write failed",
                            worktree_path(t.parent_id, t.branch) # t.path)
    /\ UNCHANGED <<otherVars, sessions, child, calls, next_id>>

\* lines 509-531
rename_worktree_update(c) ==
    /\ At(c, "rename_worktree", "update")
    /\ LET t == task[c]
       IN  IF t.id \notin DOMAIN workspaces
           THEN /\ UNCHANGED <<workspaces, disk, write_failed>>
                /\ ReturnRenamed(c, "workspace not found",
                                 worktree_path(t.parent_id, t.branch) # t.path)
           ELSE \E wrote \in BOOLEAN :
                  /\ Persist([workspaces EXCEPT
                                ![t.id].name = to_string(t.branch),
                                ![t.id].path =
                                    worktree_path(t.parent_id, t.branch),
                                ![t.id].worktree = Some(to_string(t.branch))],
                             wrote)
                  /\ IF wrote THEN Goto(c, [t EXCEPT !.pc = "connected"])
                     ELSE ReturnRenamed(c, "write failed",
                            worktree_path(t.parent_id, t.branch) # t.path)
    /\ UNCHANGED <<otherVars, sessions, child, calls, next_id>>

\* as rename_worktree_connected, with the respawn done for every worktree
rename_worktree_connected_always(c) ==
    /\ At(c, "rename_worktree", "connected")
    /\ Goto(c, [task[c] EXCEPT !.pc = "reconnect"])
    /\ UNCHANGED <<otherVars, workspaces, disk, sessions, child, calls, next_id, write_failed>>

\* lines 533 and 566-578: was_connected; the worktree that has no session
\* is returned as it is
rename_worktree_connected(c) ==
    /\ At(c, "rename_worktree", "connected")
    /\ IF task[c].id \in DOMAIN sessions
       THEN Goto(c, [task[c] EXCEPT !.pc = "reconnect"])
       ELSE ReturnInfo(c, contains_key(sessions, task[c].id))
    /\ UNCHANGED <<otherVars, workspaces, disk, sessions, child, calls, next_id, write_failed>>

\* line 535: kill_session, then the respawn of lines 536-563
rename_worktree_reconnect(c) ==
    /\ At(c, "rename_worktree", "reconnect")
    /\ kill_session(c, task[c].id, task[c], "spawn")
    /\ UNCHANGED <<otherVars, workspaces, disk, child, calls, next_id, write_failed>>

(***************************************************************************)
(* rename_worktree_upstream (lines 580-661).  The parent repository is     *)
(* what its git commands find: whether the new branch exists locally, the  *)
(* remotes, and the remotes that host the old and the new branch.          *)
(***************************************************************************)
Remotes == {"origin", "fork"}
Repos ==
    {r \in [local : BOOLEAN, remotes : SUBSET Remotes,
            old_on : SUBSET Remotes, new_on : SUBSET Remotes] :
        r.old_on \subseteq r.remotes /\ r.new_on \subseteq r.remotes}

\* git[c]: no call of rename_worktree_upstream has run a command
NoGit ==
    [repo |-> [local |-> FALSE, remotes |-> {}, old_on |-> {}, new_on |-> {}],
     remote |-> "", found |-> FALSE, log |-> <<>>]

\* what no step of rename_worktree_upstream changes
quietVars ==
    <<token, connVars, busVars, applied_to, returned, workspaces, disk,
      sessions, child, next_id, write_failed, locks>>

\* lines 1284-1304: origin when it exists and hosts the branch, else the
\* first other remote that hosts it
git_find_remote_for_branch(repo, hosts) ==
    IF "origin" \in repo.remotes /\ "origin" \in hosts THEN Some("origin")
    ELSE IF \E r \in repo.remotes \ {"origin"} : r \in hosts
    THEN Some(CHOOSE r \in repo.remotes \ {"origin"} : r \in hosts)
    ELSE None

\* lines 586-606: the error rename_worktree_upstream returns before it runs
\* git, or ""
rename_worktree_upstream_error(id, old_branch, new_branch) ==
    IF trim(old_branch) = <<>> \/ trim(new_branch) = <<>>
    THEN "Branch name is required."
    ELSE IF trim(old_branch) = trim(new_branch) THEN "Branch name is unchanged."
    ELSE worktree_lookup(id)

\* the call of connection c has run cmd against remote; ok: it succeeded.
\* chosen, found: remote_name and remote_for_old.is_some()
Ran(c, cmd, remote, ok, chosen, found) ==
    git' = [git EXCEPT ![c] =
               [@ EXCEPT !.log = Append(@, [cmd |-> cmd, remote |-> remote,
                                            ok |-> ok]),
                         !.remote = chosen, !.found = found]]
RanNext(c, cmd, remote, ok) ==
    Ran(c, cmd, remote, ok, git[c].remote, git[c].found)

rename_worktree_upstream(c) ==
    /\ Begin(c)
    /\ \E id \in Known, old_branch \in BranchInputs, new_branch \in BranchInputs :
         IF rename_worktree_upstream_error(id, old_branch, new_branch) # ""
         THEN /\ ReturnNow(c, "rename_worktree_upstream", id, FALSE,
                           rename_worktree_upstream_error(id, old_branch,
                                                          new_branch))
              /\ git' = [git EXCEPT ![c] = NoGit]
         ELSE /\ Goto(c, [Idle EXCEPT !.op = "rename_worktree_upstream",
                                      !.pc = "show-ref", !.id = id,
                                      !.parent_id = workspaces[id].parent_id])
              /\ \E repo \in Repos :
                    git' = [git EXCEPT ![c] = [NoGit EXCEPT !.repo = repo]]
    /\ UNCHANGED quietVars

\* lines 609-612: git_branch_exists(new_branch)
rename_worktree_upstream_local(c) ==
    /\ At(c, "rename_worktree_upstream", "show-ref")
    /\ \E ran \in BOOLEAN :
         /\ RanNext(c, "show-ref", "", ran)
         /\ IF ~ran THEN Return(c, FALSE, "Failed to run git")
            ELSE IF ~git[c].repo.local
            THEN Return(c, FALSE, "Local branch not found.")
            ELSE Goto(c, [task[c] EXCEPT !.pc = "find remote"])
    /\ UNCHANGED <<quietVars, calls>>

\* lines 614-624: remote_for_old and remote_name
rename_worktree_upstream_remote(c) ==
    /\ At(c, "rename_worktree_upstream", "find remote")
    /\ LET repo == git[c].repo
           remote_for_old == git_find_remote_for_branch(repo, repo.old_on)
       IN  \E ran \in BOOLEAN :
             IF ~ran
             THEN /\ RanNext(c, "find remote", "", FALSE)
                  /\ Return(c, FALSE, "Failed to run git")
             ELSE IF remote_for_old.some
             THEN /\ Ran(c, "find remote", "", TRUE, remote_for_old.v, TRUE)
                  /\ Goto(c, [task[c] EXCEPT !.pc = "ls-remote"])
             ELSE IF "origin" \in repo.remotes
             THEN /\ Ran(c, "find remote", "", TRUE, "origin", FALSE)
                  /\ Goto(c, [task[c] EXCEPT !.pc = "ls-remote"])
             ELSE /\ RanNext(c, "find remote", "", TRUE)
                  /\ Return(c, FALSE,
                            "No git remote configured for this worktree.")
    /\ UNCHANGED <<quietVars, calls>>

\* as rename_worktree_upstream_hosted, with the push made on a remote that
\* hosts the new branch too
rename_worktree_upstream_hosted_any(c) ==
    /\ At(c, "rename_worktree_upstream", "ls-remote")
    /\ \E ran \in BOOLEAN :
         /\ RanNext(c, "ls-remote", git[c].remote, ran)
         /\ IF ~ran THEN Return(c, FALSE, "git failed")
            ELSE Goto(c, [task[c] EXCEPT !.pc = "push"])
    /\ UNCHANGED <<quietVars, calls>>

\* lines 626-628: git_remote_branch_exists_live(remote_name, new_branch)
rename_worktree_upstream_hosted(c) ==
    /\ At(c, "rename_worktree_upstream", "ls-remote")
    /\ \E ran \in BOOLEAN :
         /\ RanNext(c, "ls-remote", git[c].remote, ran)
         /\ IF ~ran THEN Return(c, FALSE, "git failed")
            ELSE IF git[c].remote \in git[c].repo.new_on
            THEN Return(c, FALSE, "Remote branch already exists.")
            ELSE Goto(c, [task[c] EXCEPT !.pc = "push"])
    /\ UNCHANGED <<quietVars, calls>>

\* lines 630-639 and 646-648: `push <remote> <new>:<new>` when the old
\* branch was found on a remote, `push <remote> <new>` when not
rename_worktree_upstream_push(c) ==
    /\ At(c, "rename_worktree_upstream", "push")
    /\ \E pushed \in BOOLEAN :
         /\ RanNext(c, IF git[c].found THEN "push new:new" ELSE "push new",
                    git[c].remote, pushed)
         /\ IF ~pushed THEN Return(c, FALSE, "git failed")
            ELSE IF git[c].found
            THEN Goto(c, [task[c] EXCEPT !.pc = "push delete"])
            ELSE Goto(c, [task[c] EXCEPT !.pc = "set-upstream"])
    /\ UNCHANGED <<quietVars, calls>>

\* lines 640-645: `push <remote> :<old>`
rename_worktree_upstream_delete(c) ==
    /\ At(c, "rename_worktree_upstream", "push delete")
    /\ \E pushed \in BOOLEAN :
         /\ RanNext(c, "push :old", git[c].remote, pushed)
         /\ IF ~pushed THEN Return(c, FALSE, "git failed")
            ELSE Goto(c, [task[c] EXCEPT !.pc = "set-upstream"])
    /\ UNCHANGED <<quietVars, calls>>

\* lines 650-660: `branch --set-upstream-to <remote>/<new> <new>`
rename_worktree_upstream_set(c) ==
    /\ At(c, "rename_worktree_upstream", "set-upstream")
    /\ \E set \in BOOLEAN :
         /\ RanNext(c, "set-upstream", git[c].remote, set)
         /\ IF set THEN Return(c, TRUE, "") ELSE Return(c, FALSE, "git failed")
    /\ UNCHANGED <<quietVars, calls>>

(***************************************************************************)
(* update_workspace_settings (lines 663-694) and connect_workspace         *)
(* (lines 729-772).                                                        *)
(***************************************************************************)
\* as update_workspace_settings, with the settings given to every entry
update_workspace_settings_of_all(c) ==
    /\ Begin(c)
    /\ \E id \in Known, settings \in Settings :
         IF id \notin DOMAIN workspaces
         THEN /\ UNCHANGED <<workspaces, disk, write_failed>>
              /\ ReturnNow(c, "update_workspace_settings", id, FALSE,
                           "workspace not found")
         ELSE \E wrote \in BOOLEAN :
                /\ Persist([k \in DOMAIN workspaces |->
                               [workspaces[k] EXCEPT !.settings = settings]],
                           wrote)
                /\ ReturnNow(c, "update_workspace_settings", id, wrote,
                             IF wrote THEN "" ELSE "write failed")
    /\ UNCHANGED <<otherVars, sessions, child, next_id>>

update_workspace_settings(c) ==
    /\ Begin(c)
    /\ \E id \in Known, settings \in Settings :
         IF id \notin DOMAIN workspaces
         THEN /\ UNCHANGED <<workspaces, disk, write_failed>>
              /\ ReturnNow(c, "update_workspace_settings", id, FALSE,
                           "workspace not found")
         ELSE \E wrote \in BOOLEAN :
                /\ Persist([workspaces EXCEPT ![id].settings = settings], wrote)
                /\ ReturnNow(c, "update_workspace_settings", id, wrote,
                             IF wrote THEN "" ELSE "write failed")
    /\ UNCHANGED <<otherVars, sessions, child, next_id>>

\* codex_bin: Option<String> as a client may give it
CodexBins == {None, Some("codex")}

\* lines 696-727
update_workspace_codex_bin(c) ==
    /\ Begin(c)
    /\ \E id \in Known, codex_bin \in CodexBins :
         IF id \notin DOMAIN workspaces
         THEN /\ UNCHANGED <<workspaces, disk, write_failed>>
              /\ ReturnNow(c, "update_workspace_codex_bin", id, FALSE,
                           "workspace not found")
         ELSE \E wrote \in BOOLEAN :
                /\ Persist([workspaces EXCEPT ![id].codex_bin = codex_bin],
                           wrote)
                /\ ReturnNow(c, "update_workspace_codex_bin", id, wrote,
                             IF wrote THEN "" ELSE "write failed")
    /\ UNCHANGED <<otherVars, sessions, child, next_id>>

\* as connect_workspace, without the look into the sessions map
connect_workspace_always_spawns(c) ==
    /\ Begin(c)
    /\ \E id \in Known :
         Goto(c, [Idle EXCEPT !.op = "connect_workspace", !.pc = "lookup",
                              !.id = id])
    /\ UNCHANGED <<otherVars, workspaces, disk, sessions, child, next_id, write_failed>>

\* lines 730-735
connect_workspace(c) ==
    /\ Begin(c)
    /\ \E id \in Known :
         IF id \in DOMAIN sessions
         THEN ReturnNow(c, "connect_workspace", id, TRUE, "")
         ELSE Goto(c, [Idle EXCEPT !.op = "connect_workspace", !.pc = "lookup",
                                   !.id = id])
    /\ UNCHANGED <<otherVars, workspaces, disk, sessions, child, next_id, write_failed>>

\* lines 737-743
connect_workspace_lookup(c) ==
    /\ At(c, "connect_workspace", "lookup")
    /\ IF task[c].id \in DOMAIN workspaces
       THEN Goto(c, [task[c] EXCEPT !.pc = "spawn"])
       ELSE Return(c, FALSE, "workspace not found")
    /\ UNCHANGED <<otherVars, workspaces, disk, sessions, child, calls, next_id, write_failed>>

(***************************************************************************)
(* Pass-through requests: start_thread (lines 825-832) stands for the      *)
(* operations that call get_session and then WorkspaceSession::send_request.*)
(* send_request and the session's reader pump are in backend/app_server.rs; *)
(* they are modelled as the specification describes them: send_request     *)
(* installs an outstanding-request slot and suspends until the slot is     *)
(* fulfilled; the reader pump fulfils the slot with the child's response,  *)
(* and at the end of the child's output fails every outstanding slot with  *)
(* "session closed".                                                       *)
(***************************************************************************)
\* the callers whose slot in session s is outstanding
outstanding(s) ==
    {c \in Clients : /\ task[c].pc = "send_request"
                     /\ task[c].session = s
                     /\ task[c].slot = NoReply}

\* lines 787-793 and 826: get_session; line 831: send_request installs the slot
start_thread(c) ==
    /\ Begin(c)
    /\ \E id \in Known :
         IF id \in DOMAIN sessions
         THEN Goto(c, [Idle EXCEPT !.op = "start_thread", !.pc = "send_request",
                                   !.id = id, !.session = sessions[id]])
         ELSE ReturnNow(c, "start_thread", id, FALSE, "workspace not connected")
    /\ UNCHANGED <<otherVars, workspaces, disk, sessions, child, next_id, write_failed>>

\* the reader pump reads the child's response to the request of c
child_reply(c) ==
    /\ c \in outstanding(task[c].session)
    /\ child[task[c].session] = "alive"
    /\ \E result \in ChildResults : Goto(c, [task[c] EXCEPT !.slot = result])
    /\ UNCHANGED <<otherVars, workspaces, disk, sessions, child, calls, next_id, write_failed>>

\* the reader pump reads the end of the output of the killed child of s
reader_eof(s) ==
    /\ child[s] = "killed"
    /\ outstanding(s) # {}
    /\ task' = [c \in Clients |->
                   IF c \in outstanding(s)
                   THEN [task[c] EXCEPT !.slot = Err("session closed")]
                   ELSE task[c]]
    /\ ret' = NoRet
    /\ clash' = clash
    /\ UNCHANGED <<otherVars, workspaces, disk, sessions, child, calls, next_id, write_failed>>

\* line 831: send_request returns what the slot was fulfilled with
send_request_return(c) ==
    /\ task[c].pc = "send_request"
    /\ task[c].slot # NoReply
    /\ Return(c, task[c].slot.ok, task[c].slot.v)
    /\ UNCHANGED <<otherVars, workspaces, disk, sessions, child, calls, next_id, write_failed>>


(***************************************************************************)
(* The three mutexes of the state: workspaces (the catalog), sessions and  *)
(* app_settings, of DaemonState (daemon lines 70-78) and of the AppState   *)
(* of the app (workspaces.rs).  An operation is followed through its       *)
(* lock().await, the drop of each guard, and what it awaits or calls that  *)
(* leaves the process: git, a spawn, a kill, a request to the child, a     *)
(* walk of the directory, a write of a file.                               *)
(***************************************************************************)
Mutexes == {"workspaces", "sessions", "app_settings"}

\* the steps of an operation: lock().await of a mutex; the drop of its guard;
\* an action that cannot end the operation (do), one whose error is returned
\* with `?` (try), one made on a condition (may)
lock(m) == [k |-> "lock", on |-> m]
drop(m) == [k |-> "drop", on |-> m]
do(x) == [k |-> "do", on |-> x]
try(x) == [k |-> "try", on |-> x]
may(x) == [k |-> "may", on |-> x]

\* a guard bound in a block: taken, used in memory, dropped at the `}`
block(m) == <<lock(m), drop(m)>>

\* daemon lines 103-115: the guard is dropped at the end of the block of
\* line 104, before child.kill().await of line 114
kill_session_locks == block("sessions") \o <<may("kill")>>

\* as daemon_locks, with list_workspaces locking sessions before workspaces
daemon_locks_sessions_first ==
    [ list_workspaces |->
        <<lock("sessions"), lock("workspaces"), drop("workspaces"),
          drop("sessions")>>,
      connect_workspace |->
        block("sessions") \o block("workspaces") \o block("app_settings")
            \o block("workspaces") \o <<try("spawn")>> \o block("sessions") ]

\* the operations of DaemonState (daemon lines 103-1041) and the
\* update_app_settings arm of handle_rpc_request (line 1655)
daemon_locks ==
    [ \* lines 117-136: both guards live to the end of the function
      list_workspaces |->
        <<lock("workspaces"), lock("sessions"), drop("sessions"),
          drop("workspaces")>>,
      \* lines 142-204
      add_workspace |->
        block("app_settings") \o <<try("spawn")>> \o block("workspaces")
            \o <<try("write")>> \o block("sessions"),
      \* lines 206-307
      add_worktree |->
        block("workspaces") \o <<try("git")>> \o block("app_settings")
            \o <<try("spawn")>> \o block("workspaces") \o <<try("write")>>
            \o block("sessions"),
      \* lines 309-385
      remove_workspace |->
        block("workspaces") \o <<may("git")>> \o kill_session_locks
            \o <<do("git")>> \o kill_session_locks \o block("workspaces")
            \o <<try("write")>>,
      \* lines 387-434
      remove_worktree |->
        block("workspaces") \o <<try("git"), do("git")>>
            \o kill_session_locks \o block("workspaces") \o <<try("write")>>,
      \* lines 436-578
      rename_worktree |->
        block("workspaces") \o <<try("git")>> \o block("workspaces")
            \o <<try("write")>> \o block("sessions") \o kill_session_locks
            \o block("app_settings") \o <<may("spawn")>> \o block("sessions")
            \o block("sessions"),
      \* lines 580-661
      rename_worktree_upstream |-> block("workspaces") \o <<try("git")>>,
      \* lines 663-694, and update_workspace_codex_bin, lines 696-727
      update_workspace_settings |->
        block("workspaces") \o <<try("write")>> \o block("sessions"),
      \* lines 729-772
      connect_workspace |->
        block("sessions") \o block("workspaces") \o block("app_settings")
            \o block("workspaces") \o <<try("spawn")>> \o block("sessions"),
      \* lines 1655 and 774-785
      update_app_settings |->
        block("app_settings") \o <<try("write")>> \o block("app_settings"),
      \* lines 787-793 and 825-832: get_session, then send_request
      start_thread |-> block("sessions") \o <<try("request")>>,
      \* lines 795-806
      list_workspace_files |-> block("workspaces") \o <<do("walk")>>,
      \* lines 1004-1041
      remember_approval_rule |-> block("workspaces") \o <<try("write")>> ]

\* the commands of the app (workspaces.rs lines 147-527).  The guard of
\* `if let Some(session) = state.sessions.lock().await.remove(..)` is a
\* temporary of the condition: it is dropped at the end of the if let, after
\* the kill().await in its body (lines 339-342, 354-357, 397-400).
app_locks ==
    [ \* lines 148-170
      list_workspaces |->
        <<lock("workspaces"), lock("sessions"), drop("sessions"),
          drop("workspaces")>>,
      \* lines 172-222: the file is written inside the block of line 199
      add_workspace |->
        block("app_settings") \o <<try("spawn")>>
            \o <<lock("workspaces"), try("write"), drop("workspaces")>>
            \o block("sessions"),
      \* lines 225-313
      add_worktree |->
        block("workspaces") \o <<try("git")>> \o block("app_settings")
            \o <<try("spawn")>>
            \o <<lock("workspaces"), try("write"), drop("workspaces")>>
            \o block("sessions"),
      \* lines 316-370
      remove_workspace |->
        block("workspaces")
            \o <<lock("sessions"), may("kill"), drop("sessions")>>
            \o <<try("git"), do("git")>>
            \o <<lock("sessions"), may("kill"), drop("sessions")>>
            \o <<lock("workspaces"), try("write"), drop("workspaces")>>,
      \* lines 373-421
      remove_worktree |->
        block("workspaces")
            \o <<lock("sessions"), may("kill"), drop("sessions")>>
            \o <<try("git"), do("git")>>
            \o <<lock("workspaces"), try("write"), drop("workspaces")>>,
      \* lines 424-455, and update_workspace_codex_bin, lines 458-489
      update_workspace_settings |->
        block("workspaces") \o <<try("write")>> \o block("sessions"),
      \* lines 492-512
      connect_workspace |->
        block("workspaces") \o block("app_settings") \o <<try("spawn")>>
            \o block("sessions"),
      \* lines 515-526: the guard lives to the end of the function
      list_workspace_files |->
        <<lock("workspaces"), do("walk"), drop("workspaces")>> ]

Programs == {"daemon", "app"}
Locks(program) == IF program = "daemon" THEN daemon_locks ELSE app_locks

\* locks.run[c]: no operation runs for c
NotRunning == [op |-> "", todo |-> <<>>, doing |-> "", held |-> <<>>]

\* no mutex is held, no operation runs
Unlocked(program) ==
    [ program |-> program,
      owner |-> [m \in Mutexes |-> ""],
      run |-> [c \in Conns |-> NotRunning],
      calls |-> 0 ]

\* the mutexes a task holds, once it dropped m
dropped(held, m) == SelectSeq(held, LAMBDA h : h # m)

\* what leaves the mutexes alone
unlockedVars ==
    <<token, connVars, busVars, workspaces, disk, sessions, child, task, ret,
      calls, next_id, write_failed, clash, applied_to, returned, git>>

\* an operation is called for c
call(c) ==
    /\ locks.run[c] = NotRunning
    /\ locks.calls < MaxCalls
    /\ \E op \in DOMAIN Locks(locks.program) :
          locks' = [locks EXCEPT
                      !.run[c] = [NotRunning EXCEPT
                                    !.op = op,
                                    !.todo = Locks(locks.program)[op]],
                      !.calls = @ + 1]
    /\ UNCHANGED unlockedVars

\* lock().await returns the guard once the mutex is free
acquire(c) ==
    /\ locks.run[c].todo # <<>>
    /\ LET step == Head(locks.run[c].todo)
       IN  /\ step.k = "lock"
           /\ locks.owner[step.on] = ""
           /\ locks' = [locks EXCEPT
                          !.owner[step.on] = c,
                          !.run[c].held = Append(@, step.on),
                          !.run[c].todo = Tail(@)]
    /\ UNCHANGED unlockedVars

\* the guard goes out of scope
release(c) ==
    /\ locks.run[c].todo # <<>>
    /\ LET step == Head(locks.run[c].todo)
       IN  /\ step.k = "drop"
           /\ locks' = [locks EXCEPT
                          !.owner[step.on] = "",
                          !.run[c].held = dropped(@, step.on),
                          !.run[c].todo = Tail(@)]
    /\ UNCHANGED unlockedVars

\* the operation starts what it awaits or calls outside the process, or
\* passes it by when its condition does not hold
begin_external(c) ==
    /\ locks.run[c].todo # <<>>
    /\ locks.run[c].doing = ""
    /\ LET step == Head(locks.run[c].todo)
       IN  /\ step.k \in {"do", "try", "may"}
           /\ \/ locks' = [locks EXCEPT !.run[c].doing = step.on]
              \/ /\ step.k = "may"
                 /\ locks' = [locks EXCEPT !.run[c].todo = Tail(@)]
    /\ UNCHANGED unlockedVars

\* it is over: the operation goes on, or returns its error with `?`, which
\* drops every guard in scope
end_external(c) ==
    /\ locks.run[c].doing # ""
    /\ LET step == Head(locks.run[c].todo)
       IN  \/ locks' = [locks EXCEPT !.run[c].doing = "",
                                     !.run[c].todo = Tail(@)]
           \/ /\ step.k = "try"
              /\ locks' = [locks EXCEPT
                             !.owner = [m \in Mutexes |->
                                          IF @[m] = c THEN "" ELSE @[m]],
                             !.run[c] = NotRunning]
    /\ UNCHANGED unlockedVars

\* the operation returns
finish(c) ==
    /\ locks.run[c].op # ""
    /\ locks.run[c].todo = <<>>
    /\ locks' = [locks EXCEPT !.run[c] = NotRunning]
    /\ UNCHANGED unlockedVars

(***************************************************************************)
(* SpecConn and SpecBus.                                                   *)
(***************************************************************************)
\* no connection, no event
ConnQuiet ==
    /\ token \in ConfigTokens
    /\ conn = [c \in Conns |-> "idle"]
    /\ authenticated = [c \in Conns |-> FALSE]
    /\ events_task = [c \in Conns |-> "none"]
    /\ write_task = [c \in Conns |-> "none"]
    /\ rx = [c \in Conns |-> 0]
    /\ out = [c \in Conns |-> <<>>]
    /\ pending = [c \in Conns |-> NoFrame]
    /\ io = NoIo
    /\ nlines = 0
    /\ bus = <<>>
    /\ lagged = [c \in Conns |-> FALSE]
    /\ missed = [c \in Conns |-> {}]
    /\ peer = [c \in Conns |-> TRUE]
    /\ subscribed = [c \in Conns |-> 0]
    /\ delivered = [c \in Conns |-> <<>>]

\* no operation is followed through its git commands or its mutexes
ConnIdle == ConnQuiet /\ git = <<>> /\ locks = <<>>

\* no function of the program is being applied on its own
NoCall ==
    /\ applied_to = NoInput
    /\ returned = NoOutput

\* no session, no operation
CatIdle ==
    /\ sessions = EmptyMap
    /\ child = [s \in Sids |-> "none"]
    /\ task = [c \in Clients |-> Idle]
    /\ ret = NoRet
    /\ calls = 0
    /\ write_failed = FALSE
    /\ clash = {}

\* a daemon with no workspace, on which no operation is requested
NoCatalog ==
    /\ disk = {}
    /\ workspaces = read_workspaces(disk)
    /\ next_id = 1
    /\ CatIdle

InitConn == ConnIdle /\ NoCall /\ NoCatalog

\* one connection, every kind of line
NextConn ==
    \/ Accept("c1")
    \/ nlines < MaxLines /\ ReadLine("c1", Lines(nlines + 1))
    \/ RpcReturn("c1")
    \/ CloseInbound("c1")
    \/ WriterStep("c1")
    \/ WriterFail("c1")
    \/ Forward("c1")
    \/ emit_app_server_event
    \/ emit_terminal_output

SpecConn == InitConn /\ [][NextConn]_vars

\* two connections, few kinds of line
NextBus ==
    \/ \E c \in Conns : Accept(c)
    \/ \E c \in Conns : nlines < MaxBusLines /\ ReadLine(c, BusLines(nlines + 1))
    \/ \E c \in Conns : CloseInbound(c)
    \/ \E c \in Conns : WriterStep(c)
    \/ \E c \in Conns : WriterFail(c)
    \/ \E c \in Conns : Forward(c)
    \/ emit_app_server_event
    \/ emit_terminal_output

SpecBus == InitConn /\ [][NextBus]_vars

\* two connections whose clients only authenticate, and one kind of event
NextDeliver ==
    \/ \E c \in Conns : Accept(c)
    \/ \E c \in Conns : nlines < MaxBusLines
                            /\ ReadLine(c, {Frame(nlines + 1, "auth", JStr("T"))})
    \/ \E c \in Conns : CloseInbound(c)
    \/ \E c \in Conns : WriterStep(c)
    \/ \E c \in Conns : WriterFail(c)
    \/ \E c \in Conns : Forward(c)
    \/ emit_app_server_event

SpecDeliver == InitConn /\ [][NextDeliver]_vars

\* the runtime (line 1912) runs every task that is ready: a forwarder whose
\* receiver has something to return, a writer whose channel holds a message
FairDeliver ==
    /\ SpecDeliver
    /\ \A c \in Conns : WF_vars(Forward(c)) /\ WF_vars(WriterStep(c))

(***************************************************************************)
(* SpecCat: the operations on the catalog, requested on two connections.   *)
(***************************************************************************)
\* DaemonState::load (lines 87-101)
InitCat ==
    /\ ConnIdle
    /\ NoCall
    /\ token = Some("T")
    /\ disk \in InitialFiles
    /\ workspaces = read_workspaces(disk)
    /\ next_id = Cardinality(disk) + 1
    /\ CatIdle

NextCat ==
    \/ \E c \in Conns : calls < MaxCalls /\ add_workspace(c)
    \/ \E c \in Conns : calls < MaxCalls /\ add_worktree(c)
    \/ \E c \in Conns : add_worktree_git(c)
    \/ \E c \in Conns : spawn_workspace_session(c)
    \/ \E c \in Conns : insert_entry(c)
    \/ \E c \in Conns : register_session(c)
    \/ \E c \in Conns : calls < MaxCalls /\ remove_workspace(c)
    \/ \E c \in Conns : remove_workspace_child(c)
    \/ \E c \in Conns : remove_workspace_prune(c)
    \/ \E c \in Conns : remove_workspace_commit(c)
    \/ \E c \in Conns : calls < MaxCalls /\ remove_worktree(c)
    \/ \E c \in Conns : remove_worktree_git(c)
    \/ \E c \in Conns : remove_worktree_commit(c)
    \/ \E c \in Conns : calls < MaxCalls /\ rename_worktree(c)
    \/ \E c \in Conns : rename_worktree_git(c)
    \/ \E c \in Conns : rename_worktree_update(c)
    \/ \E c \in Conns : rename_worktree_connected(c)
    \/ \E c \in Conns : rename_worktree_reconnect(c)
    \/ \E c \in Conns : kill_session_kill(c)
    \/ \E c \in Conns : kill_session_return(c)
    \/ \E c \in Conns : calls < MaxCalls /\ update_workspace_settings(c)
    \/ \E c \in Conns : calls < MaxCalls /\ connect_workspace(c)
    \/ \E c \in Conns : connect_workspace_lookup(c)

SpecCat == InitCat /\ [][NextCat]_vars

(***************************************************************************)
(* SpecSet: the in-place updates of an entry and connect_workspace,        *)
(* requested on two connections.                                           *)
(***************************************************************************)
NextSet ==
    \/ \E c \in Conns : calls < MaxCalls /\ update_workspace_settings(c)
    \/ \E c \in Conns : calls < MaxCalls /\ update_workspace_codex_bin(c)
    \/ \E c \in Conns : calls < MaxCalls /\ connect_workspace(c)
    \/ \E c \in Conns : connect_workspace_lookup(c)
    \/ \E c \in Conns : spawn_workspace_session(c)
    \/ \E c \in Conns : register_session(c)

SpecSet == InitCat /\ [][NextSet]_vars

(***************************************************************************)
(* SpecUpstream: rename_worktree_upstream, called time after time by one   *)
(* client, on each of the catalogs the daemon may start with.              *)
(***************************************************************************)
NextUpstream ==
    \/ calls < MaxCalls /\ rename_worktree_upstream("c1")
    \/ rename_worktree_upstream_local("c1")
    \/ rename_worktree_upstream_remote("c1")
    \/ rename_worktree_upstream_hosted("c1")
    \/ rename_worktree_upstream_push("c1")
    \/ rename_worktree_upstream_delete("c1")
    \/ rename_worktree_upstream_set("c1")

\* DaemonState::load (lines 87-101), no git command run yet
InitUpstream ==
    /\ ConnQuiet
    /\ git = [c \in Conns |-> NoGit]
    /\ locks = <<>>
    /\ NoCall
    /\ token = Some("T")
    /\ disk \in InitialFiles
    /\ workspaces = read_workspaces(disk)
    /\ next_id = Cardinality(disk) + 1
    /\ CatIdle

SpecUpstream == InitUpstream /\ [][NextUpstream]_vars

(***************************************************************************)
(* SpecLocks: the operations of the daemon, or of the app, called on two   *)
(* tasks at once, as far as the three mutexes are concerned.               *)
(***************************************************************************)
InitLocks ==
    /\ ConnQuiet
    /\ git = <<>>
    /\ token = Some("T")
    /\ NoCall
    /\ NoCatalog
    /\ \E program \in Programs : locks = Unlocked(program)

NextLocks ==
    \/ \E c \in Conns : call(c)
    \/ \E c \in Conns : acquire(c)
    \/ \E c \in Conns : release(c)
    \/ \E c \in Conns : begin_external(c)
    \/ \E c \in Conns : end_external(c)
    \/ \E c \in Conns : finish(c)

SpecLocks == InitLocks /\ [][NextLocks]_vars

(***************************************************************************)
(* SpecOps: the operations on the catalog requested on one connection      *)
(* whose client may go away at any time, the daemon started with           *)
(* --insecure-no-auth.  FairOps: the runtime polls a task that is ready.   *)
(***************************************************************************)
InitOps ==
    /\ ConnIdle
    /\ NoCall
    /\ token = None
    /\ disk \in InitialFiles
    /\ workspaces = read_workspaces(disk)
    /\ next_id = Cardinality(disk) + 1
    /\ CatIdle

\* the client closes its socket, or goes away; the daemon sees it at its next
\* read of the socket (CloseInbound) or write to it (WriterFail)
Disconnect(c) ==
    /\ conn[c] = "open"
    /\ peer[c]
    /\ peer' = [peer EXCEPT ![c] = FALSE]
    /\ io' = NoIo
    /\ ret' = NoRet
    /\ UNCHANGED <<workspaces, disk, sessions, child, task, calls, next_id,
                   write_failed, clash, subscribed, delivered, token, conn,
                   authenticated, events_task, write_task, rx, out, pending,
                   nlines, busVars, fnVars>>

\* handle_client is at line 1837 and reads a request its client sent
\* (line 1886)
Requested(c) ==
    /\ conn[c] = "open"
    /\ peer[c]
    /\ authenticated[c]
    /\ pending[c] = NoFrame
    /\ calls < MaxCalls

\* the operation in progress for connection c goes on from the .await it is at
Continue(c) ==
    \/ add_worktree_git(c)
    \/ spawn_workspace_session(c)
    \/ insert_entry(c)
    \/ register_session(c)
    \/ remove_workspace_child(c)
    \/ remove_workspace_prune(c)
    \/ remove_workspace_commit(c)
    \/ remove_worktree_git(c)
    \/ remove_worktree_commit(c)
    \/ rename_worktree_git(c)
    \/ rename_worktree_update(c)
    \/ rename_worktree_connected(c)
    \/ rename_worktree_reconnect(c)
    \/ kill_session_kill(c)
    \/ kill_session_return(c)
    \/ connect_workspace_lookup(c)

NextOps ==
    \/ Accept("c1")
    \/ Disconnect("c1")
    \/ CloseInbound("c1")
    \/ Requested("c1") /\ add_workspace("c1")
    \/ Requested("c1") /\ add_worktree("c1")
    \/ Requested("c1") /\ remove_workspace("c1")
    \/ Requested("c1") /\ remove_worktree("c1")
    \/ Requested("c1") /\ rename_worktree("c1")
    \/ Requested("c1") /\ update_workspace_settings("c1")
    \/ Requested("c1") /\ connect_workspace("c1")
    \/ Continue("c1")

SpecOps == InitOps /\ [][NextOps]_vars

FairOps == SpecOps /\ WF_vars(Continue("c1"))


(***************************************************************************)
(* SpecSess: requests to the children of two connected workspaces, a main  *)
(* workspace and its worktree, and the operations that call kill_session.  *)
(* FairSess: the runtime polls a task that is ready, and the reader pump   *)
(* reads the end of the output of a killed child.                          *)
(***************************************************************************)
\* the state after connect_workspace of both workspaces
InitSess ==
    /\ ConnIdle
    /\ NoCall
    /\ token = Some("T")
    /\ disk = {MainEntry(1), WorktreeEntry(2, 1, <<"a">>)}
    /\ workspaces = read_workspaces(disk)
    /\ next_id = 3
    /\ sessions = insert(insert(EmptyMap, 1, 1), 2, 2)
    /\ child = [s \in Sids |-> IF s \in {1, 2} THEN "alive" ELSE "none"]
    /\ task = [c \in Clients |-> Idle]
    /\ ret = NoRet
    /\ calls = 0
    /\ write_failed = FALSE
    /\ clash = {}

NextSess ==
    \/ \E c \in Clients : calls < MaxRequests /\ start_thread(c)
    \/ \E c \in Clients : child_reply(c)
    \/ \E s \in Sids : reader_eof(s)
    \/ \E c \in Clients : send_request_return(c)
    \/ \E c \in Clients : calls < MaxRequests /\ remove_workspace(c)
    \/ \E c \in Clients : remove_workspace_child(c)
    \/ \E c \in Clients : remove_workspace_prune(c)
    \/ \E c \in Clients : remove_workspace_commit(c)
    \/ \E c \in Clients : calls < MaxRequests /\ remove_worktree(c)
    \/ \E c \in Clients : remove_worktree_git(c)
    \/ \E c \in Clients : remove_worktree_commit(c)
    \/ \E c \in Clients : calls < MaxRequests /\ rename_worktree(c)
    \/ \E c \in Clients : rename_worktree_git(c)
    \/ \E c \in Clients : rename_worktree_update(c)
    \/ \E c \in Clients : rename_worktree_connected(c)
    \/ \E c \in Clients : rename_worktree_reconnect(c)
    \/ \E c \in Clients : spawn_workspace_session(c)
    \/ \E c \in Clients : register_session(c)
    \/ \E c \in Clients : kill_session_kill(c)
    \/ \E c \in Clients : kill_session_return(c)

SpecSess == InitSess /\ [][NextSess]_vars

\* (a session beyond the two of InitSess and one for each call is never
\* spawned, so its pump has no end of output to read)
FairSess ==
    /\ SpecSess
    /\ \A c \in Clients : WF_vars(kill_session_kill(c))
    /\ \A c \in Clients : WF_vars(send_request_return(c))
    /\ \A s \in 1 .. (MaxRequests + 2) : WF_vars(reader_eof(s))

(***************************************************************************)
(* sort_workspaces (daemon lines 1044-1053, workspaces.rs lines 68-74).    *)
(* A workspace is its name, a sequence of characters, and its              *)
(* settings.sort_order, an Option<u32>.  A u32 is kept whole as its two    *)
(* 16-bit halves <<high, low>>, compared high half first.                  *)
(***************************************************************************)
u16_MAX == 65535
u32(high, low) == <<high, low>>
u32_MAX == u32(u16_MAX, u16_MAX)

\* Option<u32>
NoOrder == [some |-> FALSE, v |-> u32(0, 0)]
unwrap_or(o, default) == IF o.some THEN o.v ELSE default

\* Ord::cmp of two integers
int_cmp(a, b) ==
    IF a < b THEN "Less" ELSE IF a > b THEN "Greater" ELSE "Equal"

\* Ordering::then_with
then_with(ordering, next) == IF ordering = "Equal" THEN next ELSE ordering

\* u32::cmp
u32_cmp(a, b) == then_with(int_cmp(a[1], b[1]), int_cmp(a[2], b[2]))

\* the bytes of the characters workspace names are made of here
Letters ==
    <<"a", "b", "c", "d", "e", "f", "g", "h", "i", "j", "k", "l", "m",
      "n", "o", "p", "q", "r", "s", "t", "u", "v", "w", "x", "y", "z">>
FirstLetter == 97
byte(ch) == FirstLetter - 1 + CHOOSE i \in 1..Len(Letters) : Letters[i] = ch

\* str::cmp: byte by byte, a proper prefix first
RECURSIVE str_cmp(_, _)
str_cmp(a, b) ==
    IF a = <<>> /\ b = <<>> THEN "Equal"
    ELSE IF a = <<>> THEN "Less"
    ELSE IF b = <<>> THEN "Greater"
    ELSE then_with(int_cmp(byte(Head(a)), byte(Head(b))),
                   str_cmp(Tail(a), Tail(b)))

\* the closure of the daemon's sort_workspaces
sort_workspaces_cmp(a, b) ==
    LET a_order == unwrap_or(a.settings.sort_order, u32_MAX)
        b_order == unwrap_or(b.settings.sort_order, u32_MAX)
    IN  IF a_order # b_order THEN u32_cmp(a_order, b_order)
        ELSE str_cmp(a.name, b.name)

\* the closure of workspaces.rs's sort_workspaces
workspaces_sort_workspaces_cmp(a, b) ==
    LET a_order == unwrap_or(a.settings.sort_order, u32_MAX)
        b_order == unwrap_or(b.settings.sort_order, u32_MAX)
    IN  then_with(u32_cmp(a_order, b_order), str_cmp(a.name, b.name))

compare(variant, a, b) ==
    IF variant = "daemon" THEN sort_workspaces_cmp(a, b)
    ELSE workspaces_sort_workspaces_cmp(a, b)

\* slice::sort_by is stable: an element goes after every element already
\* placed that is not greater than it
sort_by_insert(sorted, x, variant) ==
    LET k == Cardinality({i \in 1..Len(sorted) :
                             compare(variant, sorted[i], x) # "Greater"})
    IN  SubSeq(sorted, 1, k) \o <<x>> \o SubSeq(sorted, k + 1, Len(sorted))

RECURSIVE sort_by(_, _)
sort_by(list, variant) ==
    IF list = <<>> THEN <<>>
    ELSE sort_by_insert(sort_by(SubSeq(list, 1, Len(list) - 1), variant),
                list[Len(list)], variant)

sort_workspaces(list) == sort_by(list, "daemon")
workspaces_sort_workspaces(list) == sort_by(list, "in-process")

\* the workspaces the lists are made of: those of the test of workspaces.rs
\* (lines 549-569) and one whose sort_order is the largest u32
workspace(name, sort_order) ==
    [name |-> name, settings |-> [sort_order |-> sort_order]]
SortedWorkspaces ==
    { workspace(<<"b", "e", "t", "a">>, NoOrder),
      workspace(<<"a", "l", "p", "h", "a">>, NoOrder),
      workspace(<<"d", "e", "l", "t", "a">>, Some(u32(0, 2))),
      workspace(<<"g", "a", "m", "m", "a">>, Some(u32(0, 1))),
      workspace(<<"b", "e", "t", "a">>, Some(u32_MAX)) }
WorkspaceLists == UNION {[1..n -> SortedWorkspaces] : n \in 0..MaxList}

\* everything but applied_to and returned
stateVars ==
    <<token, connVars, busVars, workspaces, disk, sessions, child, task, ret,
      calls, next_id, write_failed, clash, git, locks>>

\* list_workspaces of the daemon sorts the list it built (line 1044)
daemon_sort_workspaces ==
    /\ returned = NoOutput
    /\ returned' = [by |-> "daemon", value |-> sort_workspaces(applied_to)]
    /\ UNCHANGED <<stateVars, applied_to>>

\* list_workspaces of the app sorts the list it built (workspaces.rs line 68)
app_sort_workspaces ==
    /\ returned = NoOutput
    /\ returned' = [by |-> "in-process",
                    value |-> workspaces_sort_workspaces(applied_to)]
    /\ UNCHANGED <<stateVars, applied_to>>

InitSort ==
    /\ ConnIdle
    /\ NoCatalog
    /\ applied_to \in WorkspaceLists
    /\ returned = NoOutput

NextSort == daemon_sort_workspaces \/ app_sort_workspaces

SpecSort == InitSort /\ [][NextSort]_vars

(***************************************************************************)
(* sanitize_worktree_name applied to a text, and to what it returned.      *)
(***************************************************************************)
\* the characters the texts are made of: a letter of either case, a digit,
\* the three kept marks, a separator, a blank and a letter outside ASCII
SanitizedChars == {"a", "B", "7", "-", "_", ".", "/", " ", "é"}

\* the texts of the test of workspaces.rs (lines 549-554)
TestTexts ==
    { <<"f", "e", "a", "t", "u", "r", "e", "/", "n", "e", "w", "-", "t", "h", "i", "n", "g">>,
      <<"/", "/", "/">>,
      <<"-", "-", "b", "r", "a", "n", "c", "h", "-", "-">> }

Texts == UNION {[1..n -> SanitizedChars] : n \in 0..MaxText} \cup TestTexts

\* add_worktree and rename_worktree name the directory of a branch
\* (lines 233 and 488)
sanitize ==
    /\ returned = NoOutput
    /\ returned' = [by |-> "sanitize_worktree_name",
                    value |-> sanitize_worktree_name(applied_to)]
    /\ UNCHANGED <<stateVars, applied_to>>

\* the name returned is given to sanitize_worktree_name
sanitize_again ==
    /\ returned.by = "sanitize_worktree_name"
    /\ returned' = [by |-> "sanitize_worktree_name again",
                    value |-> sanitize_worktree_name(returned.value)]
    /\ UNCHANGED <<stateVars, applied_to>>

InitSanitize ==
    /\ ConnIdle
    /\ NoCatalog
    /\ applied_to \in Texts
    /\ returned = NoOutput

NextSanitize == sanitize \/ sanitize_again

SpecSanitize == InitSanitize /\ [][NextSanitize]_vars

\* C28 (sort_workspaces): the list returned is a permutation of the list
\* given, in which an absent sort_order comes after every present one, present
\* sort_orders ascend, and workspaces of one sort_order ascend by name; the
\* list [beta, alpha, delta 2, gamma 1] gives [gamma, delta, alpha, beta]; the
\* daemon's and the in-process sort_workspaces give the same order
Occurrences(list, w) == Cardinality({i \in 1..Len(list) : list[i] = w})
IsPermutation(list, of) ==
    /\ Len(list) = Len(of)
    /\ \A w \in SortedWorkspaces : Occurrences(list, w) = Occurrences(of, w)
InOrder(a, b) ==
    LET a_order == a.settings.sort_order
        b_order == b.settings.sort_order
    IN  /\ a_order.some \/ ~b_order.some
        /\ (a_order.some /\ b_order.some) =>
                u32_cmp(a_order.v, b_order.v) # "Greater"
        /\ (a_order = b_order) => str_cmp(a.name, b.name) # "Greater"
Ordered(list) ==
    \A i, j \in 1..Len(list) : i < j => InOrder(list[i], list[j])
TestList ==
    << workspace(<<"b", "e", "t", "a">>, NoOrder),
       workspace(<<"a", "l", "p", "h", "a">>, NoOrder),
       workspace(<<"d", "e", "l", "t", "a">>, Some(u32(0, 2))),
       workspace(<<"g", "a", "m", "m", "a">>, Some(u32(0, 1))) >>
TestNames ==
    << <<"g", "a", "m", "m", "a">>, <<"d", "e", "l", "t", "a">>,
       <<"a", "l", "p", "h", "a">>, <<"b", "e", "t", "a">> >>
C28_SortOrder ==
    /\ sort_workspaces(applied_to) = workspaces_sort_workspaces(applied_to)
    /\ (applied_to = TestList /\ returned # NoOutput) =>
            [i \in 1..Len(returned.value) |-> returned.value[i].name] = TestNames
    /\ returned # NoOutput =>
            /\ IsPermutation(returned.value, applied_to)
            /\ Ordered(returned.value)

\* C29 (sanitize_worktree_name): the name returned is not empty, is made of
\* characters of [A-Za-z0-9._-] only and neither starts nor ends with '-'; it
\* is the text with every other character replaced by '-', without its
\* leading and trailing '-', or "worktree" when nothing is left;
\* "feature/new-thing" gives "feature-new-thing", "///" gives "worktree",
\* "--branch--" gives "branch"; sanitizing the name returned gives it back
NameChars ==
    {"-", "_", "."} \cup {Letters[i] : i \in 1..Len(Letters)}
        \cup {"A", "B", "C", "D", "E", "F", "G", "H", "I", "J", "K", "L", "M",
              "N", "O", "P", "Q", "R", "S", "T", "U", "V", "W", "X", "Y", "Z"}
        \cup {"0", "1", "2", "3", "4", "5", "6", "7", "8", "9"}
Replaced(text) ==
    [i \in 1..Len(text) |-> IF text[i] \in NameChars THEN text[i] ELSE "-"]
\* the part of text from its first to its last character other than '-'
Core(text) ==
    LET others == {i \in 1..Len(text) : text[i] # "-"}
    IN  IF others = {} THEN <<>>
        ELSE SubSeq(text, CHOOSE i \in others : \A j \in others : i <= j,
                          CHOOSE i \in others : \A j \in others : i >= j)
Sanitized(text) ==
    IF Core(Replaced(text)) = <<>> THEN <<"w", "o", "r", "k", "t", "r", "e", "e">>
    ELSE Core(Replaced(text))
C29_SanitizedName ==
    LET name == returned.value
    IN  /\ returned.by = "sanitize_worktree_name" =>
            /\ name # <<>>
            /\ \A i \in 1..Len(name) : name[i] \in NameChars
            /\ name[1] # "-" /\ name[Len(name)] # "-"
            /\ name = Sanitized(applied_to)
            /\ applied_to = <<"f", "e", "a", "t", "u", "r", "e", "/", "n", "e", "w", "-", "t", "h", "i", "n", "g">> => name = <<"f", "e", "a", "t", "u", "r", "e", "-", "n", "e", "w", "-", "t", "h", "i", "n", "g">>
            /\ applied_to = <<"/", "/", "/">> => to_string(name) = "worktree"
            /\ applied_to = <<"-", "-", "b", "r", "a", "n", "c", "h", "-", "-">> => name = <<"b", "r", "a", "n", "c", "h">>
        /\ returned.by = "sanitize_worktree_name again" =>
            name = Sanitized(applied_to)
C29_Witness ==
    /\ returned.by = "sanitize_worktree_name again"
    /\ applied_to = <<"-", "-", "b", "r", "a", "n", "c", "h", "-", "-">>
    /\ to_string(returned.value) = "branch"

(***************************************************************************)
(* The claims about the auth gate.                                         *)
(***************************************************************************)
\* connection c read a line in the step
Reads(c) == io'.read /\ io'.c = c

\* the line is an `auth` frame whose token, given as the string `params` or as
\* the string `params.token`, is the configured token
CarriesToken(line) ==
    /\ line.json
    /\ line.method = "auth"
    /\ token.some
    /\ \/ line.params.t = "str" /\ line.params.s = token.v
       \/ line.params.t = "obj" /\ line.params.tok = "str" /\ line.params.s = token.v

ErrorFor(id, message) ==
    IF id = NoId THEN <<>>
    ELSE <<[k |-> "error", id |-> id, msg |-> message, seq |-> 0]>>

ResultFor(id, result) ==
    IF id = NoId THEN <<>>
    ELSE <<[k |-> "result", id |-> id, msg |-> result, seq |-> 0]>>

\* what the out channel holds after `response` was sent on it
Enqueued(c, response) ==
    IF write_task[c] = "running" THEN out[c] \o response ELSE out[c]

\* C1: with a token configured, handle_rpc_request is called for a connection
\* only when that connection is already authenticated, a connection becomes
\* authenticated only by reading an auth frame that carries the configured
\* token, and until then a frame of another method is answered "unauthorized"
\* under its id, or dropped without a reply when it has no id.
C1_NoRpcBeforeAuth ==
    [][token.some =>
        \A c \in Conns :
            /\ (Reads(c) /\ io'.rpc) => authenticated[c]
            /\ (authenticated'[c] /\ ~authenticated[c]) =>
                    (Reads(c) /\ CarriesToken(io'.line))
            /\ (Reads(c) /\ ~authenticated[c] /\ io'.line.json
                    /\ io'.line.method # "auth") =>
                    /\ ~io'.rpc
                    /\ ~authenticated'[c]
                    /\ pending'[c] = NoFrame
                    /\ io'.reply = ErrorFor(io'.line.id, "unauthorized")
                    /\ out'[c] = Enqueued(c, io'.reply)]_vars

\* a ping with an id was just refused on a connection that needs a token
C1_Witness ==
    /\ token.some
    /\ io.read /\ io.line.method = "ping" /\ io.line.id # NoId
    /\ ~authenticated[io.c]
    /\ Len(out[io.c]) > 0
    /\ out[io.c][Len(out[io.c])].msg = "unauthorized"

\* C2: an auth frame carrying the configured token, read by an unauthenticated
\* connection, is answered {id, result: ok}, makes the connection
\* authenticated and subscribes it to the bus at the current end with a
\* running forwarder; an authenticated connection stays authenticated and
\* every frame it reads is handed to handle_rpc_request.
C2_AuthAccepted ==
    [][\A c \in Conns :
            /\ (Reads(c) /\ ~authenticated[c] /\ CarriesToken(io'.line)) =>
                    /\ io'.reply = ResultFor(io'.line.id, "ok")
                    /\ out'[c] = Enqueued(c, io'.reply)
                    /\ authenticated'[c]
                    /\ events_task'[c] = "running"
                    /\ rx'[c] = Len(bus) + 1
            /\ authenticated[c] => authenticated'[c]
            /\ (Reads(c) /\ authenticated[c] /\ io'.line.json) => io'.rpc]_vars

\* a connection that authenticated with params.token has a frame dispatched
C2_Witness ==
    /\ token.some
    /\ io.read /\ io.rpc /\ io.line.id = 2
    /\ authenticated[io.c]
    /\ events_task[io.c] = "running"
    /\ Len(out[io.c]) >= 1
    /\ out[io.c][1] = [k |-> "result", id |-> 1, msg |-> "ok", seq |-> 0]

\* C3: an auth frame that does not carry the configured token (another token,
\* none, or one that is no string), read by an unauthenticated connection, is
\* answered "invalid token"; the connection stays unauthenticated, without a
\* forwarder, open and ready to read its next line, with nothing counted
\* against a further attempt.
C3_InvalidToken ==
    [][\A c \in Conns :
            (Reads(c) /\ ~authenticated[c] /\ io'.line.json
                /\ io'.line.method = "auth" /\ ~CarriesToken(io'.line)) =>
                    /\ io'.reply = ErrorFor(io'.line.id, "invalid token")
                    /\ out'[c] = Enqueued(c, io'.reply)
                    /\ ~io'.rpc
                    /\ ~authenticated'[c]
                    /\ events_task'[c] = "none"
                    /\ conn'[c] = "open"
                    /\ pending'[c] = NoFrame
                    /\ UNCHANGED <<token, conn, authenticated, events_task,
                                   write_task, rx, pending, busVars>>]_vars

\* a second auth frame was accepted after the first was refused
C3_Witness ==
    /\ io.read /\ io.line.id = 2 /\ CarriesToken(io.line)
    /\ authenticated[io.c]
    /\ Len(out[io.c]) = 2
    /\ out[io.c][1] = [k |-> "error", id |-> 1, msg |-> "invalid token", seq |-> 0]

\* C4: with no token configured, a connection is authenticated and subscribed
\* to the bus, with its forwarder running, from the moment it is accepted, and
\* every frame it reads, the first included, is handed to handle_rpc_request;
\* a ping with an id is answered {id, result: ok}.
C4_NoTokenMode ==
    [][~token.some =>
        \A c \in Conns :
            /\ (conn[c] = "idle" /\ conn'[c] # "idle") =>
                    /\ authenticated'[c]
                    /\ events_task'[c] = "running"
                    /\ rx'[c] = Len(bus) + 1
            /\ (Reads(c) /\ io'.line.json) => io'.rpc
            /\ (Reads(c) /\ io'.line.json /\ io'.line.method = "ping") =>
                    /\ io'.reply = ResultFor(io'.line.id, "ok")
                    /\ out'[c] = Enqueued(c, io'.reply)]_vars

\* the first line of a connection, a ping, was answered without any auth frame
C4_Witness ==
    /\ ~token.some
    /\ io.read /\ io.rpc /\ io.line.id = 1 /\ io.line.method = "ping"
    /\ out[io.c] = <<[k |-> "result", id |-> 1, msg |-> "ok", seq |-> 0]>>

\* C5: a connection that is not authenticated has no forwarder and no event
\* notification in its out channel, so none is written to it.
C5_NoEventsBeforeAuth ==
    \A c \in Conns :
        ~authenticated[c] =>
            /\ events_task[c] = "none"
            /\ \A i \in 1..Len(out[c]) : out[c][i].k # "event"

\* an event waits to be written to one connection while another connection
\* is open and still has to authenticate
C5_Witness ==
    /\ token.some
    /\ authenticated["c1"]
    /\ \E i \in 1..Len(out["c1"]) : out["c1"][i].k = "event"
    /\ conn["c2"] = "open" /\ ~authenticated["c2"]
    /\ Len(bus) > 0

(***************************************************************************)
(* The claims about the event bus.                                         *)
(***************************************************************************)
\* C9: publishing is enabled in every state, whatever the subscribers have
\* read and whatever waits in the out channels (MaxEvents only ends the
\* model's run): emit_app_server_event and emit_terminal_output never wait,
\* and a full ring gives up its oldest event.
C9_PublishNeverBlocks ==
    Len(bus) < MaxEvents =>
        /\ ENABLED emit_app_server_event
        /\ ENABLED emit_terminal_output

\* an event was published over one that a running forwarder had not read,
\* while another connection's writer had not written what it was sent
C9_Witness ==
    /\ Len(bus) > Capacity
    /\ events_task["c1"] = "running"
    /\ rx["c1"] < Oldest
    /\ write_task["c2"] = "running"
    /\ Len(out["c2"]) > 0

\* C10: a forwarder whose position was overwritten gets Lagged, moves to the
\* oldest event the ring holds and keeps running, with the connection as it
\* was; a forwarder within the ring sends the event at its position and moves
\* on by one; a running forwarder stops only with the bus closed or with the
\* connection's out channel closed (its writer no longer running).
C10_LagSkipsAndContinues ==
    [][\A c \in Conns :
            /\ (events_task[c] = "running" /\ rx[c] < Oldest /\ rx'[c] # rx[c]) =>
                    /\ rx'[c] = Oldest
                    /\ lagged'[c]
                    /\ events_task'[c] = "running"
                    /\ UNCHANGED <<conn, write_task, out, authenticated>>
            /\ (events_task[c] = "running" /\ rx[c] >= Oldest /\ rx'[c] # rx[c]) =>
                    /\ rx'[c] = rx[c] + 1
                    /\ write_task[c] = "running" =>
                            /\ events_task'[c] = "running"
                            /\ out'[c] = Append(out[c],
                                    [k |-> "event", id |-> NoId,
                                     msg |-> IF bus[rx[c]] = "AppServer"
                                             THEN "app-server-event"
                                             ELSE "terminal-output",
                                     seq |-> rx[c]])
            /\ (events_task[c] = "running" /\ events_task'[c] # "running") =>
                    (bus_closed \/ write_task'[c] # "running")]_vars

\* a forwarder that lagged is still running on an open connection and has
\* forwarded the newest event
C10_Witness ==
    /\ lagged["c1"]
    /\ events_task["c1"] = "running"
    /\ conn["c1"] = "open"
    /\ Len(bus) > Capacity
    /\ \E i \in 1..Len(out["c1"]) :
            out["c1"][i].k = "event" /\ out["c1"][i].seq = Len(bus)

(***************************************************************************)
(* The claims about the catalog.                                           *)
(***************************************************************************)
\* C6: in every reachable state, whatever the interleaving of the catalog
\* operations of concurrent clients, every Worktree entry of the catalog has a
\* parent_id that names a Main entry of the catalog, and no Main entry has a
\* parent_id.
C6_ParentInvariant ==
    \A k \in DOMAIN workspaces :
        LET entry == workspaces[k]
        IN  IF is_worktree(entry)
            THEN /\ entry.parent_id \in DOMAIN workspaces
                 /\ workspaces[entry.parent_id].kind = "Main"
            ELSE entry.parent_id = NoParent

\* C7: provided the writes of the catalog file succeed, in every state (every
\* task is at a suspension point) the file holds exactly the entries of the
\* in-memory catalog: reading it back gives the catalog.
C7_FileMatchesCatalog ==
    ~write_failed => read_workspaces(disk) = workspaces

\* both connections have inserted an entry and written the file, and both are
\* suspended before they register their sessions
C7_Witness ==
    /\ ~write_failed
    /\ \A c \in Conns : task[c].pc = "register"
    /\ {task[c].id : c \in Conns} \subseteq DOMAIN workspaces
    /\ Cardinality({task[c].id : c \in Conns}) = 2
    /\ read_workspaces(disk) = workspaces

(***************************************************************************)
(* The claims about the sessions.                                          *)
(***************************************************************************)
\* the request of c waits for its slot to be fulfilled
Waiting(c) == task[c].pc = "send_request"

\* kill_session has taken session s out of the map
TornDown(s) ==
    \/ child[s] = "killed"
    \/ \E d \in Clients : task[d].pc = "kill" /\ task[d].session = s

Positions == 1 .. MaxEvents

\* event s was published after c subscribed, and c is still connected
PublishedTo(c, s) ==
    /\ conn[c] = "open"
    /\ authenticated[c]
    /\ subscribed[c] # 0
    /\ subscribed[c] <= s
    /\ s <= Len(bus)

\* event s was written to the socket of c
WrittenTo(c, s) == \E i \in 1..Len(delivered[c]) : delivered[c][i] = s

\* the client of c went away, or its socket refused a write
Disconnected(c) == conn[c] # "open" \/ write_task[c] # "running"

\* C11 (as stated): every event published while a client is authenticated and
\* connected is eventually written to that client, unless its forwarder
\* lagged past the event.
C11_EveryEventWritten ==
    \A c \in Conns : \A s \in Positions :
        PublishedTo(c, s) ~> (WrittenTo(c, s) \/ s \in missed[c])

\* C11 (amended): every event published while a client is authenticated and
\* connected is eventually written to that client, unless its forwarder
\* lagged past the event, or the client disconnects or its socket refuses a
\* write before the event is written.
C11_EveryEventWrittenWhileConnected ==
    \A c \in Conns : \A s \in Positions :
        PublishedTo(c, s) ~>
            (WrittenTo(c, s) \/ s \in missed[c] \/ Disconnected(c))

\* both connections are open and subscribed, and the same event was written
\* to both
C11_Witness ==
    \E s \in Positions : \A c \in Conns :
        PublishedTo(c, s) /\ WrittenTo(c, s) /\ ~Disconnected(c)

\* C12: a client is never written an event that was published before it
\* subscribed (before its auth succeeded, or before it connected with no
\* token configured): nothing is replayed.
C12_NoReplay ==
    \A c \in Conns : \A i \in 1..Len(delivered[c]) :
        /\ subscribed[c] # 0
        /\ delivered[c][i] >= subscribed[c]

\* a client that subscribed after the first event was written a later one
C12_Witness ==
    /\ subscribed["c1"] > 1
    /\ delivered["c1"] # <<>>

\* C13: the events written to a client are written in the order they were
\* published: their bus positions increase along the sequence written, so
\* the sequence is a subsequence of the publication order.
C13_WrittenInPublicationOrder ==
    \A c \in Conns : \A i, j \in 1..Len(delivered[c]) :
        i < j => delivered[c][i] < delivered[c][j]

\* two events were written to the same client
C13_Witness ==
    \E c \in Conns : Len(delivered[c]) >= 2

(***************************************************************************)
(* Replies to the requests of an authenticated connection.                 *)
(***************************************************************************)
\* the one response under `id`: a result or an error
OneReply(response, id) ==
    /\ Len(response) = 1
    /\ response[1].id = id
    /\ response[1].k \in {"result", "error"}

\* the replies handle_client of c hands to out_tx.send in the step
Replies(c) == IF io'.c = c THEN io'.reply ELSE <<>>

\* what the step adds to the out channel of c that is not an event
RepliesAdded(c) ==
    IF Len(out'[c]) > Len(out[c]) /\ out'[c][Len(out'[c])].k # "event"
    THEN <<out'[c][Len(out'[c])]>>
    ELSE <<>>

\* a frame of c read in the Authenticated state and whose "id" member
\* satisfies `numbered` gets one reply under that id, in the step that reads
\* it or, the handler having suspended, in the step the handler returns; and
\* every reply of c is the reply to the frame read or to the frame pending
RepliesMatch(c, numbered) ==
    /\ (Reads(c) /\ authenticated[c] /\ io'.line.json /\ numbered) =>
            \/ /\ OneReply(Replies(c), io'.line.member.v)
               /\ out'[c] = Enqueued(c, Replies(c))
               /\ pending'[c] = NoFrame
            \/ /\ Replies(c) = <<>>
               /\ out'[c] = out[c]
               /\ pending'[c] = io'.line
    /\ (pending[c] # NoFrame /\ pending'[c] # pending[c]) =>
            /\ pending'[c] = NoFrame
            /\ pending[c].id # NoId =>
                    /\ OneReply(Replies(c), pending[c].id)
                    /\ out'[c] = Enqueued(c, Replies(c))
    /\ Replies(c) # <<>> =>
            /\ Len(Replies(c)) = 1
            /\ \/ Reads(c) /\ Replies(c)[1].id = io'.line.member.v
               \/ pending[c] # NoFrame /\ Replies(c)[1].id = pending[c].member.v
    /\ RepliesAdded(c) # <<>> => RepliesAdded(c) = Replies(c)

\* C14 (as stated): every frame with a numeric id received in the
\* Authenticated state is answered by exactly one reply under that id, a
\* result or an error and never both, and no reply carries an id the client
\* did not send.
C14_OneReplyPerNumericId ==
    [][\A c \in Conns : RepliesMatch(c, io'.line.member.t = "num")]_vars

\* C14 (amended): every frame whose id is a non-negative integer (a u64)
\* received in the Authenticated state is answered by exactly one reply under
\* that id, a result or an error and never both, and no reply carries an id
\* the client did not send; a frame whose id is another number is handled
\* as a frame without id.
C14_OneReplyPerU64Id ==
    [][\A c \in Conns : RepliesMatch(c, as_u64(io'.line.member) # NoId)]_vars

\* a request that suspended was answered with an error under its id when its
\* handler returned
C14_Witness ==
    /\ io.c = "c1"
    /\ ~io.read
    /\ OneReply(io.reply, 2)
    /\ io.reply[1].k = "error"
    /\ pending["c1"] = NoFrame
    /\ Len(out["c1"]) >= 1
    /\ out["c1"][Len(out["c1"])] = io.reply[1]

\* C15: a later request on a connection can be dispatched while an earlier
\* request of the same connection is still in progress: with a request
\* pending and another line on the wire, handle_client can read that line.
C15_RequestsOfAClientConcurrent ==
    (conn["c1"] = "open" /\ pending["c1"] # NoFrame /\ nlines < MaxLines) =>
        ENABLED ReadLine("c1", Lines(nlines + 1))

\* C16: a frame without an id read in the Authenticated state gets no reply
\* and is not interpreted: handle_rpc_request is not called for it, no
\* request is left waiting on a child, and the catalog, the sessions and the
\* children stay as they are.
C16_FramesWithoutIdUninterpreted ==
    [][\A c \in Conns :
            (/\ Reads(c)
             /\ authenticated[c]
             /\ io'.line.json
             /\ io'.line.member = IdAbsent) =>
                /\ io'.reply = <<>>
                /\ out'[c] = out[c]
                /\ ~io'.rpc
                /\ pending'[c] = pending[c]
                /\ UNCHANGED catVars]_vars

(***************************************************************************)
(* Operations of a client that goes away.                                  *)
(***************************************************************************)
\* an operation requested on connection c has started and not yet returned
InProgress(c) == task[c].pc # "idle"

\* C17: an operation started for a client runs to completion even if the
\* client disconnects while it is in progress: the connection is not torn
\* down and the operation is not cancelled while it is in progress, every
\* step it can take with the client present it can take with the client
\* gone, and it returns.
C17_OperationsOutliveTheClient ==
    /\ [][InProgress("c1") =>
            /\ conn'["c1"] = conn["c1"]
            /\ task'["c1"] # task["c1"] =>
                    \/ InProgress("c1")'
                    \/ ret'.c = "c1" /\ ret'.op = task["c1"].op]_vars
    /\ [](InProgress("c1") => ENABLED Continue("c1"))
    /\ (InProgress("c1") /\ ~peer["c1"]) ~> ~InProgress("c1")

\* an operation whose client went away while it was in progress has just
\* returned with success, and the connection is still to be torn down
C17_Witness ==
    /\ ~peer["c1"]
    /\ conn["c1"] = "open"
    /\ ret.c = "c1"
    /\ ret.ok
    /\ ret.op = "remove_workspace"
    /\ workspaces = EmptyMap

(***************************************************************************)
(* What list_workspaces reports.                                           *)
(***************************************************************************)
\* list_workspaces has the entry of workspace id, with this connected flag
Listed(id, connected) ==
    \E info \in list_workspaces : info.id = id /\ info.connected = connected

\* the operation that returned in the step
Returned(op, id) == ret'.op = op /\ ret'.id = id /\ ret'.ok

\* C18: list_workspaces reports an entry as connected exactly when the
\* sessions map has a session under its id.  For a workspace that no two
\* operations were in progress on at once: after a successful
\* add_workspace or connect_workspace it is listed with connected = true;
\* once its session is killed it is listed, while in the catalog, with
\* connected = false, and stays so until an operation that spawns a session
\* for it (add_workspace, add_worktree, connect_workspace or the respawn of
\* rename_worktree) registers the new session.
C18_ListReportsConnected ==
    [][/\ \A info \in list_workspaces' :
                info.connected <=> info.id \in DOMAIN sessions'
       /\ {info.id : info \in list_workspaces'} = DOMAIN workspaces'
       /\ \A id \in Ids \ clash' :
            /\ Returned("add_workspace", id) => Listed(id, TRUE)'
            /\ Returned("connect_workspace", id) => Listed(id, TRUE)'
            /\ (id \in DOMAIN sessions /\ id \notin DOMAIN sessions'
                    /\ id \in DOMAIN workspaces') => Listed(id, FALSE)'
            /\ (id \notin DOMAIN sessions /\ id \in DOMAIN sessions') =>
                    /\ ret'.id = id
                    /\ ret'.ok
                    /\ ret'.op \in {"add_workspace", "add_worktree",
                                    "connect_workspace", "rename_worktree"}
                    /\ Listed(id, TRUE)']_vars

\* a workspace that was connected, and never two operations at once on it,
\* is listed as not connected after its session was killed
C18_Witness ==
    \E id \in DOMAIN workspaces :
        /\ id \notin clash
        /\ Listed(id, FALSE)
        /\ \E s \in Sids : child[s] = "killed"
        /\ \A c \in Clients : task[c].pc = "idle"

(***************************************************************************)
(* Failures of add_workspace and remove_workspace.                         *)
(***************************************************************************)
\* the catalog file has an entry for workspace id
OnDisk(id) == \E entry \in disk : entry.id = id

\* C19: when the session spawn of add_workspace fails, add_workspace returns
\* the spawn error, and neither its first step nor the failing one changes
\* the catalog, the catalog file or the sessions map: the new entry is
\* neither inserted nor persisted, and no session is registered for it.
C19_FailedSpawnChangesNothing ==
    [][\A c \in Conns :
            /\ (task[c].pc = "idle" /\ At(c, "add_workspace", "spawn")') =>
                    /\ UNCHANGED <<workspaces, disk, sessions>>
                    /\ task'[c].id \notin DOMAIN workspaces
                    /\ task'[c].id \notin DOMAIN sessions
                    /\ ~OnDisk(task'[c].id)
            /\ (At(c, "add_workspace", "spawn") /\ task'[c] # task[c]
                    /\ child' = child) =>
                    /\ ret' = Ret(c, "add_workspace", task[c].id, FALSE,
                                  "spawn failed")
                    /\ task'[c] = Idle
                    /\ UNCHANGED <<workspaces, disk, sessions>>
                    /\ task[c].id \notin DOMAIN workspaces'
                    /\ task[c].id \notin DOMAIN sessions'
                    /\ ~OnDisk(task[c].id)']_vars

\* add_workspace has returned the spawn error, the catalog holding the
\* entries it had
C19_Witness ==
    /\ ret.op = "add_workspace"
    /\ ret.msg = "spawn failed"
    /\ ~ret.ok
    /\ workspaces # EmptyMap
    /\ ret.id \notin DOMAIN workspaces

\* the workspaces remove_workspace of t has dealt with
Dealt(t) == {t.id} \cup t.failures \cup t.removed

\* remove_workspace of connection c returns in the step, the removal of at
\* least one child having failed
ReturnsWithFailures(c) ==
    /\ At(c, "remove_workspace", "commit")
    /\ task[c].failures # {}
    /\ task'[c] = Idle

\* what C20 says of the return: the message lists each failed child, and the
\* catalog and the file hold the parent and the failed children and not the
\* removed ones
FailedRemovalOutcome(c) ==
    LET t == task[c]
    IN  /\ ~ret'.ok
        /\ ret'.c = c
        /\ ret'.id = t.id
        /\ ret'.msg = "Failed to remove one or more worktrees"
        /\ ret'.listed = t.failures
        /\ {t.id} \cup t.failures \subseteq DOMAIN workspaces'
        /\ t.removed \cap DOMAIN workspaces' = {}
        /\ \A id \in {t.id} \cup t.failures : OnDisk(id)'
        /\ \A id \in t.removed : ~OnDisk(id)'

\* no step remove_workspace takes once a child has failed kills or removes
\* the session of the parent
ParentSessionKept(c) ==
    LET t == task[c]
    IN  (/\ t.op = "remove_workspace"
         /\ t.failures # {}
         /\ task'[c] # t
         /\ t.id \in DOMAIN sessions) =>
            /\ t.id \in DOMAIN sessions'
            /\ sessions'[t.id] = sessions[t.id]
            /\ child'[sessions[t.id]] = child[sessions[t.id]]

ReturnsAllRemoved(c) ==
    /\ At(c, "remove_workspace", "commit")
    /\ task[c].failures = {}
    /\ task'[c] = Idle

\* no other operation was in progress on the workspaces the operation of c
\* deals with while it ran
Undisturbed(c) == Dealt(task[c]) \cap clash' = {}

\* what C21 says of the return: success; the workspace and its children are
\* in neither map, the file holds none of them and is the catalog, and every
\* session the operation took out of the map has been killed
WholeRemovalOutcome(c) ==
    LET t == task[c]
    IN  /\ ret'.ok
        /\ ret'.c = c
        /\ ret'.id = t.id
        /\ Dealt(t) \cap DOMAIN workspaces' = {}
        /\ \A k \in DOMAIN workspaces' : workspaces'[k].parent_id # t.id
        /\ Dealt(t) \cap DOMAIN sessions' = {}
        /\ \A s \in t.taken : child'[s] = "killed"
        /\ \A id \in Dealt(t) : ~OnDisk(id)'
        /\ disk' = catalog_values(workspaces')

RemovalFails(c) ==
    /\ At(c, "remove_worktree", "git")
    /\ task'[c] = Idle

\* remove_worktree of connection c starts in the step and goes on to git
RemovalStarts(c) ==
    /\ task[c].pc = "idle"
    /\ task'[c].op = "remove_worktree"

ReturnsAtOnce(c, op, id) ==
    /\ calls' = calls + 1
    /\ task' = task
    /\ ret'.c = c /\ ret'.op = op /\ ret'.id = id
GoesOn(c, op) ==
    /\ calls' = calls + 1
    /\ task[c].pc = "idle"
    /\ task'[c].op = op

\* the call fails with msg and changes nothing
Refused(c, op, id, msg) ==
    /\ ret' = Ret(c, op, id, FALSE, msg)
    /\ task' = task
    /\ UNCHANGED <<workspaces, disk, sessions, child, next_id>>

\* what the steps of the model do with a parent that is a worktree or is not
\* in the catalog, and with remove_workspace of a worktree: add_worktree
\* goes on to git only with a Main parent of the catalog, remove_workspace
\* goes on only with a Main workspace, and a call that returns at once
\* changes nothing
RefusalsChangeNothing ==
    \A c \in Conns :
        /\ GoesOn(c, "add_worktree") =>
                /\ task'[c].parent_id \in DOMAIN workspaces
                /\ ~is_worktree(workspaces[task'[c].parent_id])
        /\ GoesOn(c, "remove_workspace") =>
                /\ task'[c].id \in DOMAIN workspaces
                /\ ~is_worktree(workspaces[task'[c].id])
        /\ \A id \in Known :
              /\ ReturnsAtOnce(c, "add_worktree", id) =>
                    \E input \in BranchInputs :
                        Refused(c, "add_worktree", id,
                                add_worktree_error(id, input))
              /\ (/\ ReturnsAtOnce(c, "remove_workspace", id)
                  /\ id \in DOMAIN workspaces
                  /\ is_worktree(workspaces[id])) =>
                    Refused(c, "remove_workspace", id,
                            "Use remove_worktree for worktree agents.")

\* the error of add_worktree for the inputs in Inputs: that of a parent that
\* is a worktree, and that of a parent that is not in the catalog
ParentErrors(Inputs) ==
    \A parent_id \in Known : \A input \in Inputs :
        add_worktree_error(parent_id, input) =
            IF parent_id \notin DOMAIN workspaces
            THEN "parent workspace not found"
            ELSE IF is_worktree(workspaces[parent_id])
            THEN "Cannot create a worktree from another worktree."
            ELSE ""

Branched == {id \in DOMAIN workspaces : workspaces[id].worktree.some}

\* the inputs whose trimmed text is the current branch of entry id
SameBranch(id) ==
    {input \in BranchInputs :
        to_string(trim(input)) = workspaces[id].worktree.v}

\* rename_worktree goes on to git only with a branch that differs from the
\* entry's, and a rename_worktree that returns at once changes nothing
RenameRefusalsChangeNothing ==
    \A c \in Conns :
        /\ GoesOn(c, "rename_worktree") =>
                workspaces[task'[c].id].worktree.v # to_string(task'[c].branch)
        /\ \A id \in Known :
              ReturnsAtOnce(c, "rename_worktree", id) =>
                  \E input \in BranchInputs :
                      Refused(c, "rename_worktree", id,
                              rename_worktree_error(id, input))

KeptFields == {"id", "kind", "parent_id", "codex_bin", "settings"}

\* connection c takes a step of its rename_worktree
RenameStep(c) ==
    \/ GoesOn(c, "rename_worktree")
    \/ task[c].op = "rename_worktree" /\ task'[c] # task[c]

\* the step changes at most the name, the path and the worktree branch of
\* entry id, and adds or removes no entry
OnlyRenames(id) ==
    /\ DOMAIN workspaces' = DOMAIN workspaces
    /\ \A k \in DOMAIN workspaces :
          /\ k # id => workspaces'[k] = workspaces[k]
          /\ \A f \in KeptFields : workspaces'[k][f] = workspaces[k][f]

\* the step of rename_worktree that writes the catalog gives the entry the
\* new branch as its name and its worktree branch, and the path made of it
Renames(c) ==
    LET t == task[c]
    IN  (At(c, "rename_worktree", "update") /\ workspaces' # workspaces) =>
            /\ workspaces'[t.id].name = to_string(t.branch)
            /\ workspaces'[t.id].worktree = Some(to_string(t.branch))
            /\ workspaces'[t.id].path.file =
                    to_string(sanitize_worktree_name(t.branch))

\* C25: rename_worktree(id, ...) changes only the name, the path and the
\* worktree branch of the entry with that id: its id, kind, parent_id,
\* codex_bin and settings are unchanged, no entry is added or removed, and
\* every other entry is unchanged.
C25_RenameChangesOnlyTheBranch ==
    [][\A c \in Conns :
            RenameStep(c) =>
                /\ OnlyRenames(IF GoesOn(c, "rename_worktree")
                               THEN task'[c].id ELSE task[c].id)
                /\ Renames(c)]_vars

\* a worktree whose settings were changed has been renamed from "a" to "b"
\* with success, its parent still in the catalog
C25_Witness ==
    /\ ret.op = "rename_worktree"
    /\ ret.ok
    /\ ret.id \in DOMAIN workspaces
    /\ workspaces[ret.id] =
            [WorktreeEntry(ret.id, 1, <<"b">>) EXCEPT !.settings = 1]
    /\ OnDisk(1)
    /\ disk = catalog_values(workspaces)

\* connection c calls update_workspace_settings or update_workspace_codex_bin
\* for workspace id in the step
Updates(c, op, id) ==
    /\ calls' = calls + 1
    /\ ret'.c = c /\ ret'.op = op /\ ret'.id = id

\* the step changes at most field f of entry id
OnlyField(id, f) ==
    /\ DOMAIN workspaces' = DOMAIN workspaces
    /\ \A k \in DOMAIN workspaces :
          workspaces'[k] = IF k = id
                           THEN [workspaces[k] EXCEPT ![f] = workspaces'[k][f]]
                           ELSE workspaces[k]

\* the step is a second update_workspace_settings(id, x) right after a
\* first one that succeeded: the settings it gives are those entry id has
SameSettingsAgain(c, id) ==
    /\ ret = Ret(ret.c, "update_workspace_settings", id, TRUE, "")
    /\ Updates(c, "update_workspace_settings", id)
    /\ workspaces'[id].settings = workspaces[id].settings

\* C26: update_workspace_settings(id, x) applied a second time leaves the
\* catalog, in memory and in the file, as the first left it; it changes only
\* the settings of entry id; and neither it nor update_workspace_codex_bin
\* adds, removes, kills or respawns a session.
C26_SettingsIdempotentSessionNeutral ==
    [][\A c \in Conns : \A id \in Known :
          /\ SameSettingsAgain(c, id) =>
                workspaces' = workspaces /\ disk' = disk
          /\ Updates(c, "update_workspace_settings", id) =>
                /\ OnlyField(id, "settings")
                /\ UNCHANGED <<sessions, child>>
                /\ task' = task
          /\ Updates(c, "update_workspace_codex_bin", id) =>
                /\ OnlyField(id, "codex_bin")
                /\ UNCHANGED <<sessions, child>>
                /\ task' = task]_vars

\* update_workspace_settings has succeeded as the second call, on a catalog
\* of two entries with no session: the entry has the new settings, in
\* memory and in the file, and the other entry is as it was
C26_Witness ==
    /\ ret.op = "update_workspace_settings"
    /\ ret.ok
    /\ ret.id = 2
    /\ calls = 2
    /\ ~write_failed
    /\ workspaces[2] = [WorktreeEntry(2, 1, <<"a">>) EXCEPT !.settings = 1]
    /\ workspaces[1] = MainEntry(1)
    /\ disk = catalog_values(workspaces)

\* connection c takes the step of its connect_workspace that is at pc
Connecting(c, pc) ==
    /\ At(c, "connect_workspace", pc)
    /\ task'[c] # task[c]

\* connect_workspace up to its spawn: for an id with a session in the map it
\* returns success at once and changes nothing; otherwise it looks the id
\* up, fails with "workspace not found" if the catalog does not hold it, and
\* goes on to the spawn if it does
ConnectLooksUp(c) ==
    /\ \A id \in Known :
          ReturnsAtOnce(c, "connect_workspace", id) =>
              /\ id \in DOMAIN sessions
              /\ ret' = Ret(c, "connect_workspace", id, TRUE, "")
              /\ UNCHANGED <<workspaces, disk, sessions, child, next_id>>
    /\ GoesOn(c, "connect_workspace") =>
          /\ task'[c].id \notin DOMAIN sessions
          /\ task'[c].pc = "lookup"
          /\ UNCHANGED <<workspaces, disk, sessions, child>>
    /\ Connecting(c, "lookup") =>
          /\ UNCHANGED <<workspaces, disk, sessions, child>>
          /\ IF task[c].id \in DOMAIN workspaces
             THEN task'[c] = [task[c] EXCEPT !.pc = "spawn"]
             ELSE /\ task'[c] = Idle
                  /\ ret' = Ret(c, "connect_workspace", task[c].id, FALSE,
                                "workspace not found")

\* the spawn of connect_workspace has started a child process
ConnectSpawned(c) ==
    /\ task'[c].pc = "register"
    /\ child[task'[c].session] = "none"
    /\ child' = [child EXCEPT ![task'[c].session] = "alive"]

\* the spawn of connect_workspace has failed: the error is returned
ConnectSpawnFailed(c) ==
    /\ task'[c] = Idle
    /\ ret' = Ret(c, "connect_workspace", task[c].id, FALSE, "spawn failed")
    /\ child' = child

\* connect_workspace stores the session it spawned and returns success
ConnectStores(c) ==
    Connecting(c, "register") =>
        /\ child[task[c].session] = "alive"
        /\ sessions' = insert(sessions, task[c].id, task[c].session)
        /\ ret' = Ret(c, "connect_workspace", task[c].id, TRUE, "")
        /\ task'[c] = Idle
        /\ UNCHANGED <<workspaces, disk, child>>

RenameStarts(c) ==
    /\ task[c].pc = "idle"
    /\ task'[c].op = "rename_worktree"

\* rename_worktree of connection c returns in the step from its git commands
RenameFailsInGit(c) ==
    /\ At(c, "rename_worktree", "git")
    /\ task'[c] = Idle

\* C30: rename_worktree whose `git branch -m <old> <final>` succeeded and
\* whose `git worktree move` fails runs the compensating
\* `git branch -m <final> <old>` and returns the error of the move, whether
\* the compensation succeeded or not (and it runs the compensation in no
\* other case); no step of the call changes the catalog, the file, the
\* sessions map or a child process.
C30_MoveFailureCompensated ==
    [][\A c \in Conns :
            /\ RenameStarts(c) =>
                    UNCHANGED <<workspaces, disk, sessions, child>>
            /\ RenameFailsInGit(c) =>
                    /\ ~ret'.ok
                    /\ ret'.c = c
                    /\ ret'.op = "rename_worktree"
                    /\ ret'.id = task[c].id
                    /\ (ret'.undo # "") <=> (ret'.msg = "git worktree move failed")
                    /\ ret'.undo # "" => ret'.undo \in BranchRestoreResults
                    /\ UNCHANGED <<workspaces, disk, sessions, child>>]_vars

\* rename_worktree of a connected worktree has failed at the move of the
\* directory and its compensation has failed too: the entry has its old
\* branch, in the catalog and in the file, and its session is in the map
\* and alive
C30_Witness ==
    /\ ret.op = "rename_worktree"
    /\ ret.msg = "git worktree move failed"
    /\ ret.undo = "git branch -m failed"
    /\ ret.id \in DOMAIN workspaces
    /\ workspaces[ret.id].worktree = Some("a")
    /\ workspaces[ret.id] \in disk
    /\ ret.id \in DOMAIN sessions
    /\ child[sessions[ret.id]] = "alive"

\* rename_worktree of connection c returns success in the step
RenameSucceeds(c) ==
    /\ task[c].op = "rename_worktree"
    /\ task'[c] = Idle
    /\ ret'.ok

\* the sessions the call took out of the map have been killed
TakenKilled(c) ==
    /\ task[c].taken # {}
    /\ \A s \in task[c].taken : child'[s] = "killed"

\* the call ends with the respawned session stored and reported
Respawned(c) ==
    /\ task[c].pc = "register"
    /\ task[c].session \notin task[c].taken
    /\ child'[task[c].session] = "alive"
    /\ task[c].id \in DOMAIN sessions'
    /\ sessions'[task[c].id] = task[c].session
    /\ ret'.connected

\* the call ends with the respawn failed: the catalog has the new branch and
\* the workspace has no session
RespawnFailed(c) ==
    /\ task[c].pc = "spawn"
    /\ child' = child
    /\ task[c].id \in DOMAIN workspaces'
    /\ workspaces'[task[c].id].worktree = Some(to_string(task[c].branch))
    /\ task[c].id \notin DOMAIN sessions'
    /\ ~ret'.connected

\* the call ends without a session having been killed or spawned
NotRespawned(c) ==
    /\ task[c].pc = "connected"
    /\ task[c].taken = {}
    /\ child' = child
    /\ sessions' = sessions
    /\ ~ret'.connected

\* what a successful rename_worktree has done about the session, for a
\* worktree that had one (had) and for one that had none
RenameReconnects(c, had) ==
    IF had THEN TakenKilled(c) /\ (Respawned(c) \/ RespawnFailed(c))
    ELSE NotRespawned(c)

UpstreamOrders ==
    { <<"show-ref", "find remote", "ls-remote", "push new:new", "push :old",
        "set-upstream">>,
      <<"show-ref", "find remote", "ls-remote", "push new", "set-upstream">> }
Pushes == {"push new:new", "push :old", "push new"}
IsPrefix(a, b) == Len(a) <= Len(b) /\ a = SubSeq(b, 1, Len(a))

\* the commands a call has run are a start of one of the two orders, each
\* but the last has succeeded, and the pushes were made as claimed
UpstreamLog(log, repo) ==
    /\ \E order \in UpstreamOrders :
            IsPrefix([i \in 1..Len(log) |-> log[i].cmd], order)
    /\ \A i \in 1..Len(log) :
         /\ i < Len(log) => log[i].ok
         /\ log[i].cmd \in Pushes =>
                /\ repo.local
                /\ log[i].remote \in repo.remotes \ repo.new_on
         /\ log[i].cmd = "push :old" =>
                /\ log[i].remote \in repo.old_on
                /\ log[i - 1].cmd = "push new:new" /\ log[i - 1].ok
         /\ log[i].cmd = "push new" => repo.old_on = {}
         /\ log[i].cmd = "set-upstream" =>
                \E j \in 1..(i - 1) : log[j].cmd \in Pushes

\* C32: rename_worktree_upstream runs its git commands in a fixed order and
\* returns the error of the first that fails, running no other; it pushes
\* only when the new branch exists locally and the remote it chose does not
\* host the new branch; it pushes the deletion of the old branch only when
\* the old branch was found on the remote and after the push of the new
\* branch succeeded; it sets the upstream only after every push succeeded;
\* no step of it changes the catalog, the file, the sessions map or a child.
C32_UpstreamOrder ==
    /\ [](\A c \in Conns : UpstreamLog(git[c].log, git[c].repo))
    /\ [][/\ UNCHANGED <<workspaces, disk, sessions, child>>
          /\ \A c \in Conns :
                (/\ git'[c].log # git[c].log
                 /\ git'[c].log # <<>>
                 /\ ~git'[c].log[Len(git'[c].log)].ok) =>
                    /\ task'[c] = Idle
                    /\ ~ret'.ok]_vars

\* a call has returned success after the two pushes and the set-upstream,
\* the old branch being hosted by the remote "fork" only
C32_Witness ==
    /\ ret.op = "rename_worktree_upstream"
    /\ ret.ok
    /\ Len(git[ret.c].log) = 6
    /\ git[ret.c].log[5] = [cmd |-> "push :old", remote |-> "fork", ok |-> TRUE]
    /\ git[ret.c].repo.old_on = {"fork"}

\* handle_client of connection c leaves its loop in this step (line 1837:
\* next_line gave None or an error)
Closes(c) == conn[c] = "open" /\ conn'[c] = "closed"

\* what the forwarding to connection c consists of
Forwarding(c) ==
    <<events_task[c], write_task[c], rx[c], out[c], delivered[c], lagged[c],
      missed[c], subscribed[c]>>

\* C33: when the inbound stream of a connection closes, its forwarder is
\* cancelled and its writer is closed: from then on neither task runs, what
\* was queued for the writer is dropped, nothing is written to the
\* connection (so no event published after the close is), its receiver
\* reads no more of the bus, and the step that closes it changes nothing of
\* the forwarding to the other connections.
C33_CloseStopsForwarding ==
    /\ [](\A c \in Conns : conn[c] = "closed" =>
              /\ events_task[c] # "running"
              /\ write_task[c] # "running"
              /\ out[c] = <<>>)
    /\ [][\A c \in Conns :
            /\ conn[c] = "closed" =>
                  /\ delivered'[c] = delivered[c]
                  /\ rx'[c] = rx[c]
                  /\ conn'[c] = "closed"
            /\ Closes(c) =>
                  /\ bus' = bus
                  /\ \A d \in Conns \ {c} : Forwarding(d)' = Forwarding(d)]_vars

\* connection c1 was closed with its forwarder running, and an event that
\* was never forwarded to it has been written to connection c2, which is
\* still open
C33_Witness ==
    /\ conn["c1"] = "closed"
    /\ events_task["c1"] = "aborted"
    /\ write_task["c1"] = "aborted"
    /\ conn["c2"] = "open"
    /\ \E i \in 1..Len(bus) :
          /\ i >= rx["c1"]
          /\ \E j \in 1..Len(delivered["c2"]) : delivered["c2"][j] = i

\* what an operation has in progress outside the process that may take long
LongActions == {"git", "spawn", "walk", "kill", "request"}

\* C34: no operation holds the catalog mutex while a git command, a spawn or
\* a walk of a directory is in progress, nor the sessions mutex while the
\* kill of a child is awaited.
C34_NoLockAcrossLongActions ==
    \A c \in Conns :
        LET mine == locks.run[c]
            held == {mine.held[i] : i \in 1..Len(mine.held)}
        IN  /\ mine.doing \in {"git", "spawn", "walk"} =>
                    "workspaces" \notin held
            /\ mine.doing = "kill" => "sessions" \notin held

\* the order in which the mutexes are to be taken
LockOrder == <<"workspaces", "sessions", "app_settings">>
Rank(m) == CHOOSE i \in 1..Len(LockOrder) : LockOrder[i] = m

\* the mutexes held, in the order they were taken, follow LockOrder
HeldInOrder(held) ==
    \A i, j \in 1..Len(held) : i < j => Rank(held[i]) < Rank(held[j])

\* the task of c is at a lock().await of a mutex that is held
Blocked(c) ==
    /\ locks.run[c].todo # <<>>
    /\ Head(locks.run[c].todo).k = "lock"
    /\ locks.owner[Head(locks.run[c].todo).on] # ""

\* some tasks wait, each for a mutex held by one of them
WaitCycle ==
    \E waiting \in SUBSET Conns \ {{}} :
        \A c \in waiting :
            /\ Blocked(c)
            /\ locks.owner[Head(locks.run[c].todo).on] \in waiting

\* C35: an operation that holds more than one of the three mutexes took
\* them in the order catalog (workspaces), sessions, app_settings, and no
\* state is reached in which tasks wait for each other's mutexes in a cycle.
C35_LockOrder ==
    /\ \A c \in Conns : HeldInOrder(locks.run[c].held)
    /\ ~WaitCycle

\* list_workspaces holds the catalog and the sessions mutex, taken in this
\* order, while the other task waits for one of them
C35_Witness ==
    /\ locks.run["c1"].op = "list_workspaces"
    /\ locks.run["c1"].held = <<"workspaces", "sessions">>
    /\ Blocked("c2")

\* C36: every workspace id that has a session in the sessions map is an
\* entry of the catalog, whatever operations interleave.
C36_SessionsHaveEntries == DOMAIN sessions \subseteq DOMAIN workspaces

\* the sessions whose child runs, the sessions of the map, and the sessions
\* an operation in progress has in hand: the one it spawned and has yet to
\* store, the one it took out of the map and has yet to kill
Live == {s \in Sids : child[s] = "alive"}
Registered == {sessions[id] : id \in DOMAIN sessions}
InHand == {task[c].session : c \in Clients} \ {NoSession}

\* C37: every child that runs is the child of a session of the sessions map
\* (so there is at most one for a workspace id), or of a session that an
\* operation in progress is about to store or to kill: no session is
\* replaced or dropped with its child left running.
C37_LiveChildrenRegistered == Live \subseteq (Registered \cup InHand)

\* the operations that change the catalog and return a Result
CatalogOperations ==
    {"add_workspace", "add_worktree", "remove_worktree", "rename_worktree",
     "update_workspace_settings", "update_workspace_codex_bin"}

\* the operation of c returns an error in this step
ReturnsError(c) ==
    /\ ret' # NoRet
    /\ ret'.c = c
    /\ ~ret'.ok
    /\ ret'.op \in CatalogOperations

\* C38: with no other operation in progress, when add_workspace,
\* add_worktree, remove_worktree, rename_worktree, update_workspace_settings
\* or update_workspace_codex_bin returns an error, the catalog in memory and
\* the sessions map are as they were before the call: the step that returns
\* the error changes neither, and the call has taken no session out of the
\* map (no earlier step of these operations changes the catalog).
C38_ErrorLeavesStateAsBefore ==
    [][\A c \in Conns :
          ReturnsError(c) =>
              /\ workspaces' = workspaces
              /\ sessions' = sessions
              /\ task[c].taken = {}]_vars

\* rename_worktree of c returns an error in this step
RenameFails(c) ==
    /\ ret' # NoRet
    /\ ret'.c = c
    /\ ret'.op = "rename_worktree"
    /\ ~ret'.ok
    /\ task[c].op = "rename_worktree"

\* C39: whenever rename_worktree returns an error, the branch of the parent
\* repository and the directory of the worktree are as before the call (a
\* `git branch -m` that succeeded has been reversed, and the directory has
\* not been moved), and the catalog, left as it was, still names the
\* branch the repository has.
C39_FailedRenameRestoresRepository ==
    [][\A c \in Conns :
          RenameFails(c) =>
              /\ ret'.renamed => ret'.undo = "restored"
              /\ ~ret'.moved
              /\ workspaces' = workspaces]_vars

\* connection c reads an auth frame in this step, being authenticated
ReadsAuthAgain(c) ==
    /\ Reads(c)
    /\ authenticated[c]
    /\ io'.line.json
    /\ io'.line.method = "auth"

\* no event is in the sequence twice
WrittenOnce(events) ==
    \A i, j \in 1..Len(events) : events[i] = events[j] => i = j

\* C40: a connection subscribes to the bus and starts a forwarder at most
\* once, and once authenticated stays so: an auth frame it reads when
\* authenticated (after its auth, or with no token configured) goes to
\* handle_rpc_request and fails with "unknown method: auth", the
\* subscription, the receiver and the forwarder left as they are; and no
\* event is written twice to a connection.
C40_OneSubscription ==
    /\ [](\A c \in Conns : WrittenOnce(delivered[c]))
    /\ [][\A c \in Conns :
            /\ authenticated[c] => authenticated'[c]
            /\ subscribed[c] # 0 => subscribed'[c] = subscribed[c]
            /\ events_task[c] # "none" =>
                    /\ events_task'[c] # "none"
                    /\ events_task'[c] = "running" => events_task[c] = "running"
            /\ events_task[c] = "running" => rx'[c] >= rx[c]
            /\ ReadsAuthAgain(c) =>
                    /\ io'.rpc
                    /\ io'.reply = ErrorFor(io'.line.id, "unknown method: auth")
                    /\ out'[c] = Enqueued(c, io'.reply)
                    /\ subscribed'[c] = subscribed[c]
                    /\ rx'[c] = rx[c]
                    /\ events_task'[c] = events_task[c]]_vars

\* a connection that authenticated with its first line was sent an auth
\* frame with the token again and answered the error, and an event published
\* since has been written to it
C40_Witness ==
    /\ token.some
    /\ authenticated["c1"]
    /\ subscribed["c1"] = 1
    /\ delivered["c1"] = <<1>>
    /\ nlines = 2
    /\ \E i \in 1..Len(out["c1"]) :
          out["c1"][i] =
              [k |-> "error", id |-> 2, msg |-> "unknown method: auth", seq |-> 0]

====
